---- MODULE Spec2Model ----
(***************************************************************************)
(* Provider search backend (backend/server.js): the find-providers         *)
(* handler with its tier-based origin resolution, the proximity query      *)
(* with count, page and cursor, and the saved-location handlers that       *)
(* build the data the resolver reads.                                      *)
(***************************************************************************)
EXTENDS Integers, Sequences, FiniteSets, TLC

\* SQL NULL / JavaScript null for text-valued fields.
NULL == "<null>"

\* A JavaScript variable that has not been assigned (undefined).
Undefined == "<undefined>"

\* Option values for numeric fields that may be absent (cursor, nextCursor).
None == <<>>
Some(x) == <<x>>

(***************************************************************************)
(* Text.  TLC treats strings as atoms, so every text the model uses is     *)
(* spelled out here as its sequence of characters.                         *)
(***************************************************************************)
Chars(s) ==
  CASE s = "" -> <<>>
    [] s = "sertraline" -> <<"s","e","r","t","r","a","l","i","n","e">>
    [] s = "SERTRALINE" -> <<"S","E","R","T","R","A","L","I","N","E">>
    [] s = "SERTRALINE HCL" -> <<"S","E","R","T","R","A","L","I","N","E"," ","H","C","L">>
    [] s = "ZOLOFT" -> <<"Z","O","L","O","F","T">>
    [] s = "XANAX" -> <<"X","A","N","A","X">>
    [] s = "ALPRAZOLAM" -> <<"A","L","P","R","A","Z","O","L","A","M">>
    [] s = "psych" -> <<"p","s","y","c","h">>
    [] s = "Psychiatry" -> <<"P","s","y","c","h","i","a","t","r","y">>
    [] s = "Family Medicine" -> <<"F","a","m","i","l","y"," ","M","e","d","i","c","i","n","e">>
    [] s = "ADAMS" -> <<"A","D","A","M","S">>
    [] s = "BAKER" -> <<"B","A","K","E","R">>
    [] s = "CLARK" -> <<"C","L","A","R","K">>
    [] s = "ANN" -> <<"A","N","N">>
    [] s = "BOB" -> <<"B","O","B">>
    [] s = "19104" -> <<"1","9","1","0","4">>
    [] s = "19003" -> <<"1","9","0","0","3">>
    [] s = "19401" -> <<"1","9","4","0","1">>
    [] s = "99999" -> <<"9","9","9","9","9">>
    [] s = "1910" -> <<"1","9","1","0">>
    [] s = "191044321" -> <<"1","9","1","0","4","4","3","2","1">>
    [] s = "Home" -> <<"H","o","m","e">>
    [] s = "Work" -> <<"W","o","r","k">>
    [] s = "3400 SPRUCE ST" -> <<"3","4","0","0"," ","S","P","R","U","C","E"," ","S","T">>
    [] s = "SUITE 2" -> <<"S","U","I","T","E"," ","2">>
    [] s = "100 MAIN ST" -> <<"1","0","0"," ","M","A","I","N"," ","S","T">>
    [] s = "PHILA" -> <<"P","H","I","L","A">>
    [] s = "NORRISTOWN" -> <<"N","O","R","R","I","S","T","O","W","N">>
    [] s = "PA" -> <<"P","A">>
    [] s = "MD" -> <<"M","D">>
    [] s = "DO" -> <<"D","O">>
    [] s = ", " -> <<","," ">>
    [] s = " " -> <<" ">>
    [] s = "locationName required for premium" -> <<"l","o","c","a","t","i","o","n","N","a","m","e"," ","r","e","q","u","i","r","e","d"," ","f","o","r"," ","p","r","e","m","i","u","m">>
    [] s = "zipCode required for expert" -> <<"z","i","p","C","o","d","e"," ","r","e","q","u","i","r","e","d"," ","f","o","r"," ","e","x","p","e","r","t">>
    [] s = "Zip code required" -> <<"Z","i","p"," ","c","o","d","e"," ","r","e","q","u","i","r","e","d">>
    [] s = "Could not determine search location." -> <<"C","o","u","l","d"," ","n","o","t"," ","d","e","t","e","r","m","i","n","e"," ","s","e","a","r","c","h"," ","l","o","c","a","t","i","o","n",".">>
    [] s = "Unexpected error during provider search" -> <<"U","n","e","x","p","e","c","t","e","d"," ","e","r","r","o","r"," ","d","u","r","i","n","g"," ","p","r","o","v","i","d","e","r"," ","s","e","a","r","c","h">>
    [] s = "Validation Error" -> <<"V","a","l","i","d","a","t","i","o","n"," ","E","r","r","o","r">>
    [] s = "Primary location not found" -> <<"P","r","i","m","a","r","y"," ","l","o","c","a","t","i","o","n"," ","n","o","t"," ","f","o","u","n","d">>
    [] s = "Location '" -> <<"L","o","c","a","t","i","o","n"," ","'">>
    [] s = "' not found" -> <<"'"," ","n","o","t"," ","f","o","u","n","d">>
    [] s = "Coordinates not found for zip code " -> <<"C","o","o","r","d","i","n","a","t","e","s"," ","n","o","t"," ","f","o","u","n","d"," ","f","o","r"," ","z","i","p"," ","c","o","d","e"," ">>
    [] s = "timeout exceeded when trying to connect" -> <<"t","i","m","e","o","u","t"," ","e","x","c","e","e","d","e","d"," ","w","h","e","n"," ","t","r","y","i","n","g"," ","t","o"," ","c","o","n","n","e","c","t">>
    [] s = "not found" -> <<"n","o","t"," ","f","o","u","n","d">>
    [] s = "relation spatial_ref_sys not found" -> <<"r","e","l","a","t","i","o","n"," ","s","p","a","t","i","a","l","_","r","e","f","_","s","y","s"," ","n","o","t"," ","f","o","u","n","d">>

Upper == <<"A","B","C","D","E","F","G","H","I","J","K","L","M",
           "N","O","P","Q","R","S","T","U","V","W","X","Y","Z">>
Lower == <<"a","b","c","d","e","f","g","h","i","j","k","l","m",
           "n","o","p","q","r","s","t","u","v","w","x","y","z">>
Digits == {"0","1","2","3","4","5","6","7","8","9"}

\* Lower-case one character (characters outside A-Z are unchanged).
LowerChar(c) ==
  IF \E i \in 1..Len(Upper) : Upper[i] = c
  THEN Lower[CHOOSE i \in 1..Len(Upper) : Upper[i] = c]
  ELSE c

LowerSeq(t) == [i \in 1..Len(t) |-> LowerChar(t[i])]

\* Position of a character in the collation order (space, digits, letters
\* without regard to case).
CharRank(c) ==
  IF c = " " THEN 0
  ELSE IF c \in Digits THEN 1
  ELSE 1 + CHOOSE i \in 1..Len(Lower) : Lower[i] = LowerChar(c)

\* -1, 0, 1 as text a sorts before, equal to, after text b.
RECURSIVE CompareSeq(_, _)
CompareSeq(a, b) ==
  IF a = <<>> /\ b = <<>> THEN 0
  ELSE IF a = <<>> THEN -1
  ELSE IF b = <<>> THEN 1
  ELSE IF CharRank(Head(a)) < CharRank(Head(b)) THEN -1
  ELSE IF CharRank(Head(a)) > CharRank(Head(b)) THEN 1
  ELSE CompareSeq(Tail(a), Tail(b))

\* ORDER BY ... ASC on a nullable text column: NULLs sort last.
CompareText(a, b) ==
  IF a = NULL /\ b = NULL THEN 0
  ELSE IF a = NULL THEN 1
  ELSE IF b = NULL THEN -1
  ELSE CompareSeq(Chars(a), Chars(b))

\* SQL LIKE on character sequences: % matches any run, _ any one character.
RECURSIVE LikeSeq(_, _)
LikeSeq(t, p) ==
  IF p = <<>> THEN t = <<>>
  ELSE IF Head(p) = "%"
       THEN LikeSeq(t, Tail(p)) \/ (t # <<>> /\ LikeSeq(Tail(t), p))
  ELSE IF t = <<>> THEN FALSE
  ELSE (Head(p) = "_" \/ Head(p) = Head(t)) /\ LikeSeq(Tail(t), Tail(p))

\* column ILIKE pattern; a NULL column never matches.
ILike(col, pat) ==
  col # NULL /\ LikeSeq(LowerSeq(Chars(col)), LowerSeq(pat))

\* /^\d{5}$/
IsFiveDigits(s) ==
  Len(Chars(s)) = 5 /\ \A i \in 1..5 : Chars(s)[i] \in Digits

\* JavaScript truthiness of a string, null or undefined value.
Truthy(s) == s # NULL /\ s # Undefined /\ s # ""

(***************************************************************************)
(* Reference data (read-only to the server).  Geometries are points of     *)
(* SRID 4326 on one meridian, given by their latitude in thousandths of a  *)
(* degree; PostGIS measures GEOMETRY distances in the units of the         *)
(* coordinates, so ST_Distance is a number of degrees.                     *)
(***************************************************************************)
us_zipcodes ==
  { [zip_code |-> "19104", geom |-> 39950],
    [zip_code |-> "19003", geom |-> 40093],    \* 9.9 miles north of 19104
    [zip_code |-> "19401", geom |-> 40096] }   \* 10.1 miles north of 19104

npi_details ==
  { [npi |-> 1001, provider_first_name |-> "ANN", provider_last_name_legal_name |-> "ADAMS",
     provider_credential_text |-> "MD",
     healthcare_provider_taxonomy_1_classification |-> "Psychiatry",
     healthcare_provider_taxonomy_1_specialization |-> NULL,
     npi_deactivation_date |-> NULL],
    [npi |-> 1002, provider_first_name |-> "ANN", provider_last_name_legal_name |-> "ADAMS",
     provider_credential_text |-> NULL,
     healthcare_provider_taxonomy_1_classification |-> "Family Medicine",
     healthcare_provider_taxonomy_1_specialization |-> "Psychiatry",
     npi_deactivation_date |-> NULL],
    [npi |-> 1003, provider_first_name |-> "BOB", provider_last_name_legal_name |-> "BAKER",
     provider_credential_text |-> "MD",
     healthcare_provider_taxonomy_1_classification |-> "Psychiatry",
     healthcare_provider_taxonomy_1_specialization |-> NULL,
     npi_deactivation_date |-> "2020-01-01"],
    [npi |-> 1004, provider_first_name |-> NULL, provider_last_name_legal_name |-> "CLARK",
     provider_credential_text |-> "DO",
     healthcare_provider_taxonomy_1_classification |-> "Psychiatry",
     healthcare_provider_taxonomy_1_specialization |-> NULL,
     npi_deactivation_date |-> NULL],
    [npi |-> 1005, provider_first_name |-> "ANN", provider_last_name_legal_name |-> "ADAMS",
     provider_credential_text |-> "MD",
     healthcare_provider_taxonomy_1_classification |-> "Psychiatry",
     healthcare_provider_taxonomy_1_specialization |-> NULL,
     npi_deactivation_date |-> NULL] }

\* One address row per provider; 1009 is an orphan (no npi_details row).
npi_addresses ==
  { [npi |-> 1001, address_line_1 |-> "3400 SPRUCE ST", address_line_2 |-> "SUITE 2",
     city |-> "PHILA", state |-> "PA", postal_code |-> "19104", phone |-> "2155550100"],
    [npi |-> 1002, address_line_1 |-> "3400 SPRUCE ST", address_line_2 |-> NULL,
     city |-> "PHILA", state |-> "PA", postal_code |-> "19104", phone |-> NULL],
    [npi |-> 1003, address_line_1 |-> "100 MAIN ST", address_line_2 |-> NULL,
     city |-> NULL, state |-> "PA", postal_code |-> "19003", phone |-> "2155550100"],
    [npi |-> 1004, address_line_1 |-> NULL, address_line_2 |-> NULL,
     city |-> "NORRISTOWN", state |-> NULL, postal_code |-> "19401", phone |-> NULL],
    [npi |-> 1005, address_line_1 |-> "100 MAIN ST", address_line_2 |-> NULL,
     city |-> "NORRISTOWN", state |-> "PA", postal_code |-> "19401", phone |-> NULL],
    [npi |-> 1009, address_line_1 |-> "100 MAIN ST", address_line_2 |-> NULL,
     city |-> "PHILA", state |-> "PA", postal_code |-> "19104", phone |-> NULL] }

npi_prescriptions ==
  { [prescription_id |-> 1, npi |-> 1001, drug_name |-> "ZOLOFT",
     generic_name |-> "SERTRALINE", total_claim_count |-> 20],
    [prescription_id |-> 2, npi |-> 1001, drug_name |-> "SERTRALINE",
     generic_name |-> "SERTRALINE", total_claim_count |-> 8],
    [prescription_id |-> 3, npi |-> 1002, drug_name |-> "ZOLOFT",
     generic_name |-> "SERTRALINE", total_claim_count |-> 20],
    [prescription_id |-> 4, npi |-> 1003, drug_name |-> "ZOLOFT",
     generic_name |-> "SERTRALINE", total_claim_count |-> 30],
    [prescription_id |-> 5, npi |-> 1004, drug_name |-> "SERTRALINE HCL",
     generic_name |-> "SERTRALINE HCL", total_claim_count |-> 12],
    [prescription_id |-> 6, npi |-> 1004, drug_name |-> "ZOLOFT",
     generic_name |-> "SERTRALINE", total_claim_count |-> 3],
    [prescription_id |-> 7, npi |-> 1009, drug_name |-> "ZOLOFT",
     generic_name |-> "SERTRALINE", total_claim_count |-> 50],
    [prescription_id |-> 8, npi |-> 1002, drug_name |-> "XANAX",
     generic_name |-> "ALPRAZOLAM", total_claim_count |-> 40],
    [prescription_id |-> 9, npi |-> 1005, drug_name |-> "ZOLOFT",
     generic_name |-> "SERTRALINE", total_claim_count |-> 20] }

(***************************************************************************)
(* providerService.findProviders: the query.                               *)
(***************************************************************************)
\* 1609.34, in thousandths.
MetersPerMile == 1609340

\* const radiusMeters = radiusMiles * 1609.34  (in thousandths)
RadiusMeters(radiusMiles) == radiusMiles * MetersPerMile

Abs(x) == IF x < 0 THEN -x ELSE x

\* ST_Distance on GEOMETRY(Point, 4326): the planar distance of the
\* coordinates (thousandths of a degree here).
ST_Distance(g1, g2) == Abs(g1 - g2)

\* ST_DWithin(g1, g2, d) on geometries: ST_Distance(g1, g2) <= d, the number d
\* taken in the units of the coordinates.
ST_DWithin(g1, g2, d) == ST_Distance(g1, g2) <= d

\* SELECT geom FROM us_zipcodes WHERE zip_code = $1 LIMIT 1
ZipGeoms(zipCode) == { uz.geom : uz \in { z \in us_zipcodes : z.zip_code = zipCode } }

\* The WHERE clause of baseQuery on one joined tuple.
BaseWhere(nd, np, uz, searchGeom, q) ==
  /\ ST_DWithin(uz.geom, searchGeom, RadiusMeters(q.radiusMiles))
  /\ (ILike(np.drug_name, Chars(q.drugName)) \/ ILike(np.generic_name, Chars(q.drugName)))
  /\ np.total_claim_count >= q.minClaims
  /\ (Truthy(q.taxonomyClass) =>
        ILike(nd.healthcare_provider_taxonomy_1_classification,
              <<"%">> \o Chars(q.taxonomyClass) \o <<"%">>))

\* FROM npi_details JOIN npi_addresses JOIN npi_prescriptions JOIN us_zipcodes
\* WHERE ...: the joined tuples that pass.
BaseQuery(searchGeom, q) ==
  { j \in [nd : npi_details, na : npi_addresses, np : npi_prescriptions, uz : us_zipcodes] :
      /\ j.nd.npi = j.na.npi
      /\ j.nd.npi = j.np.npi
      /\ j.na.postal_code = j.uz.zip_code
      /\ BaseWhere(j.nd, j.np, j.uz, searchGeom, q) }

\* COUNT(*) in place of COUNT(DISTINCT nd.npi).
CountQuery_Rows(searchGeom, q) ==
  Cardinality(BaseQuery(searchGeom, q))

\* SELECT COUNT(DISTINCT nd.npi)
CountQuery(searchGeom, q) ==
  Cardinality({ j.nd.npi : j \in BaseQuery(searchGeom, q) })

\* The longitude of the meridian all centroids lie on (thousandths of a degree).
Meridian == -75190

\* The select list of finalQuery for one joined tuple.
SelectRow(j, searchGeom) ==
  [ npi |-> j.nd.npi,
    provider_first_name |-> j.nd.provider_first_name,
    provider_last_name |-> j.nd.provider_last_name_legal_name,
    provider_credential_text |-> j.nd.provider_credential_text,
    classification |-> j.nd.healthcare_provider_taxonomy_1_classification,
    specialization |-> j.nd.healthcare_provider_taxonomy_1_specialization,
    address_line_1 |-> j.na.address_line_1,
    address_line_2 |-> j.na.address_line_2,
    city |-> j.na.city,
    state |-> j.na.state,
    postal_code |-> j.na.postal_code,
    phone |-> j.na.phone,
    longitude |-> Meridian,
    latitude |-> j.uz.geom,
    distance_meters |-> ST_Distance(j.uz.geom, searchGeom),
    total_claim_count |-> j.np.total_claim_count ]

\* SELECT DISTINCT <select list>: the set of distinct result rows.
SelectDistinct(searchGeom, q) ==
  { SelectRow(j, searchGeom) : j \in BaseQuery(searchGeom, q) }

\* The clause for 'claims' without its second key.
OrderBefore_ClaimsOnly(sortBy, r1, r2) ==
  CASE sortBy = "claims" -> r1.total_claim_count > r2.total_claim_count
    [] sortBy = "name" ->
         LET l == CompareText(r1.provider_last_name, r2.provider_last_name)
             f == CompareText(r1.provider_first_name, r2.provider_first_name)
         IN \/ l < 0
            \/ l = 0 /\ f < 0
            \/ l = 0 /\ f = 0 /\ r1.distance_meters < r2.distance_meters
    [] OTHER -> r1.distance_meters < r2.distance_meters

\* r1 sorts strictly before r2 under the ORDER BY clause chosen by sortBy.
OrderBefore(sortBy, r1, r2) ==
  CASE sortBy = "claims" ->
         \/ r1.total_claim_count > r2.total_claim_count
         \/ /\ r1.total_claim_count = r2.total_claim_count
            /\ r1.distance_meters < r2.distance_meters
    [] sortBy = "name" ->
         LET l == CompareText(r1.provider_last_name, r2.provider_last_name)
             f == CompareText(r1.provider_first_name, r2.provider_first_name)
         IN \/ l < 0
            \/ l = 0 /\ f < 0
            \/ l = 0 /\ f = 0 /\ r1.distance_meters < r2.distance_meters
    [] OTHER -> r1.distance_meters < r2.distance_meters

\* Every sequence the database may return for the ORDER BY: rows that compare
\* equal under the clause come in any order.
RECURSIVE Orderings(_, _)
Orderings(rows, sortBy) ==
  IF rows = {} THEN { <<>> }
  ELSE UNION { { <<m>> \o t : t \in Orderings(rows \ {m}, sortBy) } :
               m \in { r \in rows : \A o \in rows : ~OrderBefore(sortBy, o, r) } }

Min(a, b) == IF a < b THEN a ELSE b

\* LIMIT limit OFFSET offset
LimitOffset(seq, limit, offset) == SubSeq(seq, offset + 1, Min(Len(seq), offset + limit))

\* const offset = typeof cursor === 'number' ? cursor : 0
Offset(cursor) == IF cursor = None THEN 0 ELSE cursor[1]

\* The pages finalQuery may return.
FinalQuery(searchGeom, q) ==
  { LimitOffset(o, q.limit, Offset(q.cursor)) :
      o \in Orderings(SelectDistinct(searchGeom, q), q.sortBy) }

\* <= in place of <.
NextCursor_Inclusive(offset, returned, totalCount) ==
  LET nextOffset == offset + returned
  IN IF nextOffset <= totalCount THEN Some(nextOffset) ELSE None

\* const nextCursor = nextOffset < totalCount ? nextOffset : null
NextCursor(offset, returned, totalCount) ==
  LET nextOffset == offset + returned
  IN IF nextOffset < totalCount THEN Some(nextOffset) ELSE None

\* x || '' on a text column, as characters.
OrEmpty(x) == IF Truthy(x) THEN Chars(x) ELSE <<>>

\* String.prototype.trim on the texts composed here (blanks only).
RECURSIVE Trim(_)
Trim(t) ==
  IF t = <<>> THEN t
  ELSE IF Head(t) = " " THEN Trim(Tail(t))
  ELSE IF t[Len(t)] = " " THEN Trim(SubSeq(t, 1, Len(t) - 1))
  ELSE t

\* .replace(/^, |, $/g, ''): a leading and a trailing ", " are removed.
StripCommas(t) ==
  LET c == Chars(", ")
      a == IF Len(t) >= 2 /\ SubSeq(t, 1, 2) = c THEN SubSeq(t, 3, Len(t)) ELSE t
  IN IF Len(a) >= 2 /\ SubSeq(a, Len(a) - 1, Len(a)) = c THEN SubSeq(a, 1, Len(a) - 2) ELSE a

\* [classification, specialization].filter(Boolean)
Specialties(row) ==
  (IF Truthy(row.classification) THEN << row.classification >> ELSE <<>>)
    \o (IF Truthy(row.specialization) THEN << row.specialization >> ELSE <<>>)

\* results.rows.map(row => ({ id: row.npi.toString(), ... })): one provider view.
FormatRow(row) ==
  [ id |-> row.npi,
    npi |-> row.npi,
    name |-> Trim(OrEmpty(row.provider_first_name) \o Chars(" ")
                    \o OrEmpty(row.provider_last_name)),
    first_name |-> row.provider_first_name,
    last_name |-> row.provider_last_name,
    title |-> OrEmpty(row.provider_credential_text),
    specialties |-> Specialties(row),
    city |-> row.city,
    state |-> row.state,
    location |-> Trim(StripCommas(
                   OrEmpty(row.address_line_1)
                     \o (IF Truthy(row.address_line_2)
                         THEN Chars(", ") \o Chars(row.address_line_2) ELSE <<>>)
                     \o Chars(", ") \o OrEmpty(row.city)
                     \o Chars(", ") \o OrEmpty(row.state)
                     \o Chars(" ") \o OrEmpty(row.postal_code))),
    rating |-> 0,
    review_count |-> 0,
    availability |-> "N/A",
    latitude |-> row.latitude,
    longitude |-> row.longitude ]

FormatRows(rows) == [i \in 1..Len(rows) |-> FormatRow(rows[i])]

\* String.prototype.includes
Includes(text, sub) ==
  \E i \in 0..(Len(text) - Len(sub)) : SubSeq(text, i + 1, i + Len(sub)) = sub

(***************************************************************************)
(* Request validation (express-validation with Joi).                       *)
(***************************************************************************)
\* The schema without the pattern on zipCode.
ValidFindProviders_NoZipPattern(body) ==
  /\ Truthy(body.drugName)
  /\ body.radiusMiles >= 1 /\ body.radiusMiles <= 100
  /\ body.minClaims >= 0
  /\ body.sortBy \in {Undefined, "distance", "claims", "name"}
  /\ (body.cursor # None => body.cursor[1] >= 0)
  /\ body.limit >= 1 /\ body.limit <= 100

\* findProvidersSchema on the fields the model's requests carry.
ValidFindProviders(body) ==
  /\ Truthy(body.drugName)
  /\ body.radiusMiles >= 1 /\ body.radiusMiles <= 100
  /\ body.minClaims >= 0
  /\ body.sortBy \in {Undefined, "distance", "claims", "name"}
  /\ (Truthy(body.zipCode) => IsFiveDigits(body.zipCode))
  /\ (body.cursor # None => body.cursor[1] >= 0)
  /\ body.limit >= 1 /\ body.limit <= 100

\* addLocationSchema
ValidAddLocation(name, zipCode) ==
  Truthy(name) /\ zipCode # NULL /\ IsFiveDigits(zipCode)

(***************************************************************************)
(* Inputs.                                                                 *)
(***************************************************************************)
Users == {"u1"}
Tiers == {"basic", "premium", "expert"}

\* The labels a profile may carry: the three tiers and one the server does not know.
TierLabels == Tiers \cup {"enterprise"}
LocationNames == {"Home", "Work"}
LocationZips == {"19104", "19401"}

\* The locations users save: a label with its zip code.
LocationInputs ==
  { [name |-> "Home", zipCode |-> "19104"], [name |-> "Work", zipCode |-> "19401"] }

\* Largest user_location_id the SERIAL column hands out.
MaxLocationId == 2

\* One well-formed body.
SampleBody ==
  [ drugName |-> "sertraline", radiusMiles |-> 10, minClaims |-> 0, taxonomyClass |-> NULL,
    sortBy |-> "claims", locationName |-> "Home", zipCode |-> "19104",
    cursor |-> None, limit |-> 1 ]

\* Well-formed bodies with every choice of the fields the origin is resolved from.
OriginBodies ==
  { [SampleBody EXCEPT !.locationName = l, !.zipCode = z] :
      l \in {NULL, "", "Home"}, z \in {NULL, "", "19104", "19401", "99999"} }

\* Well-formed bodies with every choice of the fields the query is built from.
QueryBodies ==
  { [SampleBody EXCEPT !.minClaims = m, !.taxonomyClass = t, !.sortBy = s,
                       !.limit = n, !.cursor = c] :
      m \in {0, 5}, t \in {NULL, "psych"}, s \in {"distance", "claims", "name"},
      n \in {1, 2}, c \in {None, Some(0), Some(1)} }
  \cup
  { [SampleBody EXCEPT !.sortBy = Undefined, !.limit = n] : n \in {1, 2} }
  \cup
  { [SampleBody EXCEPT !.zipCode = "19401", !.sortBy = s, !.limit = n] :
      s \in {"distance", "claims", "name"}, n \in {1, 2} }

\* The bodies that differ from SampleBody in one malformed field.
MalformedBodies ==
  { [SampleBody EXCEPT !.zipCode = "1910"],
    [SampleBody EXCEPT !.zipCode = "191044321"],
    [SampleBody EXCEPT !.drugName = NULL],
    [SampleBody EXCEPT !.radiusMiles = 0],
    [SampleBody EXCEPT !.radiusMiles = 101],
    [SampleBody EXCEPT !.cursor = Some(-1)],
    [SampleBody EXCEPT !.limit = 0],
    [SampleBody EXCEPT !.minClaims = -1],
    [SampleBody EXCEPT !.sortBy = "rating"] }

\* Messages a failing store call (Supabase, pool.connect, client.query) rejects with.
StoreErrorMessages ==
  { Chars("timeout exceeded when trying to connect"),
    Chars("relation spatial_ref_sys not found") }

(***************************************************************************)
(* State.                                                                  *)
(***************************************************************************)
VARIABLES
  profiles,         \* profiles.membership_tier by user id (NULL: no profile row)
  user_locations,   \* the rows of table user_locations
  nextLocationId,   \* next value of the SERIAL user_location_id
  checkedOut,       \* pool clients checked out and not yet released
  pc,               \* where the find-providers request in flight stands
  req,              \* the request in flight: [user, body]
  userTier,         \* findProvidersHandler's userTier
  searchZip,        \* findProvidersHandler's searchZip
  searchGeom,       \* findProviders' searchGeom
  totalCount,       \* findProviders' totalCount
  issued,           \* store calls the request has issued so far
  res,              \* the response sent for the request
  trav,             \* the client's walk through the pages: cursor 0, then each nextCursor
  user_subscriptions,  \* the row of table user_subscriptions by user id
  api_usage_logs,   \* the rows of table api_usage_logs, in insertion order
  stripeUsage,      \* usage-increment calls the billing collaborator has received
  prescriberReq,    \* the metered search in flight (getPrescriberDataWithSubscriptionCheck)
  handlers,         \* the saved-location requests in flight, by request slot
  disconnectedAt,   \* where the find-providers request stood when its caller went away (NULL: caller connected)
  poolMax           \* the pool's max: parseInt(process.env.DB_POOL_MAX || '20', 10)

vars == << profiles, user_locations, nextLocationId, checkedOut, pc, req, userTier,
           searchZip, searchGeom, totalCount, issued, res, trav,
           user_subscriptions, api_usage_logs, stripeUsage, prescriberReq, handlers,
           disconnectedAt, poolMax >>

\* max: parseInt(process.env.DB_POOL_MAX || '20', 10)
DefaultPoolMax == 20

billing == << user_subscriptions, api_usage_logs, stripeUsage, prescriberReq >>
search == << pc, req, userTier, searchZip, searchGeom, totalCount, issued, res, trav,
            disconnectedAt >>

store == << profiles, user_locations, nextLocationId >>
locals == << userTier, searchZip, searchGeom, totalCount >>

NoBody == [SampleBody EXCEPT !.drugName = NULL]
NoRes == [status |-> 0, error |-> <<>>, data |-> <<>>, totalCount |-> 0, nextCursor |-> None]
NoTrav == [active |-> FALSE, origin |-> NULL, rows |-> <<>>, fixed |-> TRUE]

\* No subscription row.
NoSubscription ==
  [subscription_status |-> NULL, plan_id |-> NULL, stripe_subscription_id |-> NULL]

\* No metered search in flight.
NoPrescriberReq ==
  [pc |-> "idle", user |-> NULL, filters |-> NULL, plan |-> NULL, data |-> {}, calls |-> 0, rows |-> 0,
   failedAt |-> NULL, out |-> NULL]

BillingInit ==
  /\ user_subscriptions = [u \in Users |-> NoSubscription]
  /\ api_usage_logs = <<>>
  /\ stripeUsage = 0
  /\ prescriberReq = NoPrescriberReq

\* The request slots of the saved-location handlers.
Slots == {1, 2}

\* A free request slot.
IdleHandler ==
  [op |-> NULL, pc |-> "idle", user |-> NULL, name |-> NULL, zipCode |-> NULL,
   locationId |-> 0, client |-> FALSE, todo |-> {}, writes |-> {}, status |-> 0,
   before |-> {}, rows |-> {}]

NoHandlers == [p \in Slots |-> IdleHandler]

Init ==
  /\ profiles = [u \in Users |-> NULL]
  /\ user_locations = {}
  /\ nextLocationId = 1
  /\ checkedOut = 0
  /\ pc = "idle"
  /\ req = [user |-> "u1", body |-> NoBody]
  /\ userTier = Undefined
  /\ searchZip = Undefined
  /\ searchGeom = 0
  /\ totalCount = 0
  /\ issued = {}
  /\ res = NoRes
  /\ trav = NoTrav
  /\ BillingInit
  /\ handlers = NoHandlers
  /\ disconnectedAt = NULL
  /\ poolMax = DefaultPoolMax

(***************************************************************************)
(* find-providers: handler, tier resolution and saved-location lookup.     *)
(***************************************************************************)
ErrorRes(status, message) ==
  [status |-> status, error |-> message, data |-> <<>>, totalCount |-> 0, nextCursor |-> None]

\* A catch block that answers every error with the generic failure.
CatchRes_Generic(message) ==
  ErrorRes(500, Chars("Unexpected error during provider search"))

\* The catch block of findProvidersHandler.
CatchRes(message) ==
  IF Includes(message, Chars("not found"))
  THEN ErrorRes(404, message)
  ELSE ErrorRes(500, Chars("Unexpected error during provider search"))

\* A zip code supplied by a basic or premium user taken as the origin.
TierBranch_ZipOverride(tier, body) ==
  IF tier \in {"basic", "premium"} /\ Truthy(body.zipCode)
  THEN [kind |-> "zip", zip |-> body.zipCode]
  ELSE IF tier = "basic"
  THEN [kind |-> "lookup", isPrimary |-> TRUE, locationName |-> NULL]
  ELSE IF tier = "premium"
  THEN IF ~Truthy(body.locationName)
       THEN [kind |-> "reject", error |-> Chars("locationName required for premium")]
       ELSE [kind |-> "lookup", isPrimary |-> FALSE, locationName |-> body.locationName]
  ELSE IF tier = "expert"
  THEN IF ~Truthy(body.zipCode)
       THEN [kind |-> "reject", error |-> Chars("zipCode required for expert")]
       ELSE [kind |-> "zip", zip |-> body.zipCode]
  ELSE IF ~Truthy(body.zipCode)
       THEN [kind |-> "reject", error |-> Chars("Zip code required")]
       ELSE [kind |-> "zip", zip |-> body.zipCode]

\* An expert user without a zip code falling back to the primary saved location.
TierBranch_ExpertFallback(tier, body) ==
  IF tier = "basic"
  THEN [kind |-> "lookup", isPrimary |-> TRUE, locationName |-> NULL]
  ELSE IF tier = "premium"
  THEN IF ~Truthy(body.locationName)
       THEN [kind |-> "reject", error |-> Chars("locationName required for premium")]
       ELSE [kind |-> "lookup", isPrimary |-> FALSE, locationName |-> body.locationName]
  ELSE IF ~Truthy(body.zipCode)
       THEN [kind |-> "lookup", isPrimary |-> TRUE, locationName |-> NULL]
       ELSE [kind |-> "zip", zip |-> body.zipCode]

\* What findProvidersHandler does once it knows the tier: reject the request,
\* look a saved location up with the given options, or take the request's zip.
TierBranch(tier, body) ==
  IF tier = "basic"
  THEN [kind |-> "lookup", isPrimary |-> TRUE, locationName |-> NULL]
  ELSE IF tier = "premium"
  THEN IF ~Truthy(body.locationName)
       THEN [kind |-> "reject", error |-> Chars("locationName required for premium")]
       ELSE [kind |-> "lookup", isPrimary |-> FALSE, locationName |-> body.locationName]
  ELSE IF tier = "expert"
  THEN IF ~Truthy(body.zipCode)
       THEN [kind |-> "reject", error |-> Chars("zipCode required for expert")]
       ELSE [kind |-> "zip", zip |-> body.zipCode]
  ELSE IF ~Truthy(body.zipCode)
       THEN [kind |-> "reject", error |-> Chars("Zip code required")]
       ELSE [kind |-> "zip", zip |-> body.zipCode]

\* The SELECT without "AND is_primary = true".
LocationRows_NoPrimary(userId, options, locations) ==
  { l \in locations :
      /\ l.user_id = userId
      /\ (Truthy(options.locationName) => l.location_name = options.locationName) }

\* The SELECT without "AND location_name = $2".
LocationRows_NoLabel(userId, options, locations) ==
  { l \in locations :
      /\ l.user_id = userId
      /\ (options.isPrimary => l.is_primary) }

\* The rows of getUserLocation's SELECT before LIMIT 1.
LocationRows(userId, options, locations) ==
  { l \in locations :
      /\ l.user_id = userId
      /\ (options.isPrimary => l.is_primary)
      /\ (Truthy(options.locationName) => l.location_name = options.locationName) }

\* The message of the error getUserLocation throws when no row matches.
LocationNotFound(options) ==
  IF Truthy(options.locationName)
  THEN Chars("Location '") \o Chars(options.locationName) \o Chars("' not found")
  ELSE Chars("Primary location not found")

\* The outcomes of findProvidersHandler's origin resolution for one request
\* against the saved locations as they stand: the zip searched from, or the error.
ResolvedOrigin(tier, userId, body, locations) ==
  LET b == TierBranch(tier, body)
  IN IF b.kind = "lookup"
     THEN LET rows == LocationRows(userId, b, locations)
          IN IF rows = {}
             THEN { [kind |-> "error", error |-> LocationNotFound(b)] }
             ELSE { [kind |-> "zip", zip |-> r.zip_code] : r \in rows }
     ELSE IF b.kind = "zip"
     THEN { [kind |-> "zip", zip |-> b.zip] }
     ELSE { [kind |-> "error", error |-> b.error] }

\* app.post('/api/find-providers', authenticateToken, validate(...), handler):
\* a request of an authenticated user arrives; a malformed body is answered by
\* the validation middleware, otherwise the handler starts and asks for the tier.
Arrive(u, body, walk) ==
  /\ req' = [user |-> u, body |-> body]
  /\ userTier' = Undefined /\ searchZip' = Undefined /\ searchGeom' = 0 /\ totalCount' = 0
  /\ trav' = walk
  /\ IF ValidFindProviders(body)
     THEN /\ pc' = "tier"
          /\ issued' = {"getUserTier"}
          /\ res' = NoRes
     ELSE /\ pc' = "done"
          /\ issued' = {}
          /\ res' = ErrorRes(400, Chars("Validation Error"))
  /\ disconnectedAt' = NULL
  /\ UNCHANGED << store, checkedOut >>
  /\ UNCHANGED << poolMax, billing, handlers >>

\* A new request; one with cursor 0 (or none) starts a walk through the pages.
PostFindProviders(u, body) ==
  /\ pc = "idle"
  /\ Arrive(u, body, [NoTrav EXCEPT !.active = (Offset(body.cursor) = 0)])

\* The client asks for the next page: the same request with the nextCursor
\* it was given.
NextPage ==
  /\ pc = "done"
  /\ trav.active
  /\ res.status = 200
  /\ res.nextCursor # None
  /\ Arrive(req.user, [req.body EXCEPT !.cursor = res.nextCursor], trav)

\* userService.getUserTier resolves; the handler branches on the tier.
GetUserTier ==
  /\ pc = "tier"
  /\ userTier' = profiles[req.user]
  /\ LET b == TierBranch(profiles[req.user], req.body)
     IN CASE b.kind = "reject" ->
               /\ pc' = "done"
               /\ res' = ErrorRes(400, b.error)
               /\ trav' = NoTrav
               /\ UNCHANGED << searchZip, issued >>
          [] b.kind = "lookup" ->
               /\ pc' = "loc_connect"
               /\ issued' = issued \cup {"getUserLocation.connect"}
               /\ UNCHANGED << searchZip, res, trav >>
          [] b.kind = "zip" ->
               /\ searchZip' = b.zip
               /\ pc' = "fp_connect"
               /\ issued' = issued \cup {"findProviders.connect"}
               /\ UNCHANGED << res, trav >>
  /\ UNCHANGED << store, checkedOut, req, searchGeom, totalCount >>
  /\ UNCHANGED << poolMax, billing, handlers, disconnectedAt >>

\* getUserLocation: pool.connect resolves and the SELECT is sent.
LocationConnect ==
  /\ pc = "loc_connect"
  /\ checkedOut < poolMax
  /\ checkedOut' = checkedOut + 1
  /\ pc' = "loc_query"
  /\ issued' = issued \cup {"getUserLocation.query"}
  /\ UNCHANGED << store, req, locals, res, trav >>
  /\ UNCHANGED << poolMax, billing, handlers, disconnectedAt >>

\* getUserLocation that also flags the row it used as the user's primary one.
LocationQuery_MarksPrimary ==
  /\ pc = "loc_query"
  /\ checkedOut' = checkedOut - 1
  /\ LET options == TierBranch(userTier, req.body)
         rows == LocationRows(req.user, options, user_locations)
     IN IF rows = {}
        THEN /\ pc' = "done"
             /\ res' = CatchRes(LocationNotFound(options))
             /\ trav' = NoTrav
             /\ UNCHANGED << searchZip, issued, user_locations >>
        ELSE \E row \in rows :
               /\ searchZip' = row.zip_code
               /\ user_locations' =
                    { IF l.user_id = req.user
                      THEN [l EXCEPT !.is_primary = (l = row)] ELSE l : l \in user_locations }
               /\ IF ~Truthy(row.zip_code)
                  THEN /\ pc' = "done"
                       /\ res' = ErrorRes(400, Chars("Could not determine search location."))
                       /\ trav' = NoTrav
                       /\ UNCHANGED issued
                  ELSE /\ pc' = "fp_connect"
                       /\ issued' = issued \cup {"findProviders.connect"}
                       /\ UNCHANGED << res, trav >>
  /\ UNCHANGED << profiles, nextLocationId, req, userTier, searchGeom, totalCount >>
  /\ UNCHANGED << poolMax, billing, handlers, disconnectedAt >>

\* getUserLocation that hands its client on to the search instead of releasing
\* it: the request holds it while findProviders asks the pool for another.
LocationQuery_KeepsClient ==
  /\ pc = "loc_query"
  /\ LET options == TierBranch(userTier, req.body)
         rows == LocationRows(req.user, options, user_locations)
     IN IF rows = {}
        THEN /\ pc' = "done"
             /\ res' = CatchRes(LocationNotFound(options))
             /\ trav' = NoTrav
             /\ checkedOut' = checkedOut - 1
             /\ UNCHANGED << searchZip, issued >>
        ELSE \E row \in rows :
               /\ searchZip' = row.zip_code
               /\ IF ~Truthy(row.zip_code)
                  THEN /\ pc' = "done"
                       /\ res' = ErrorRes(400, Chars("Could not determine search location."))
                       /\ trav' = NoTrav
                       /\ checkedOut' = checkedOut - 1
                       /\ UNCHANGED issued
                  ELSE /\ pc' = "fp_connect"
                       /\ issued' = issued \cup {"findProviders.connect"}
                       /\ UNCHANGED << checkedOut, res, trav >>
  /\ UNCHANGED << store, req, userTier, searchGeom, totalCount >>
  /\ UNCHANGED << poolMax, billing, handlers, disconnectedAt >>

\* getUserLocation: the SELECT resolves, the client is released; the handler
\* goes on with the row's zip code or catches the error thrown for no row.
LocationQuery ==
  /\ pc = "loc_query"
  /\ checkedOut' = checkedOut - 1
  /\ LET options == TierBranch(userTier, req.body)
         rows == LocationRows(req.user, options, user_locations)
     IN IF rows = {}
        THEN /\ pc' = "done"
             /\ res' = CatchRes(LocationNotFound(options))
             /\ trav' = NoTrav
             /\ UNCHANGED << searchZip, issued >>
        ELSE \E row \in rows :
               /\ searchZip' = row.zip_code
               /\ IF ~Truthy(row.zip_code)
                  THEN /\ pc' = "done"
                       /\ res' = ErrorRes(400, Chars("Could not determine search location."))
                       /\ trav' = NoTrav
                       /\ UNCHANGED issued
                  ELSE /\ pc' = "fp_connect"
                       /\ issued' = issued \cup {"findProviders.connect"}
                       /\ UNCHANGED << res, trav >>
  /\ UNCHANGED << store, req, userTier, searchGeom, totalCount >>
  /\ UNCHANGED << poolMax, billing, handlers, disconnectedAt >>

(***************************************************************************)
(* find-providers: providerService.findProviders.                          *)
(***************************************************************************)
\* pool.connect resolves and the zip query is sent.
FindConnect ==
  /\ pc = "fp_connect"
  /\ checkedOut < poolMax
  /\ checkedOut' = checkedOut + 1
  /\ pc' = "fp_zip"
  /\ issued' = issued \cup {"findProviders.zipQuery"}
  /\ UNCHANGED << store, req, locals, res, trav >>
  /\ UNCHANGED << poolMax, billing, handlers, disconnectedAt >>

\* The zip query resolves: no centroid throws (the client is released and the
\* handler catches), otherwise the count query is sent.
FindZip ==
  /\ pc = "fp_zip"
  /\ IF ZipGeoms(searchZip) = {}
     THEN /\ checkedOut' = checkedOut - 1
          /\ pc' = "done"
          /\ res' = CatchRes(Chars("Coordinates not found for zip code ") \o Chars(searchZip))
          /\ trav' = NoTrav
          /\ UNCHANGED << searchGeom, issued >>
     ELSE /\ \E g \in ZipGeoms(searchZip) : searchGeom' = g
          /\ pc' = "fp_count"
          /\ issued' = issued \cup {"findProviders.countQuery"}
          /\ UNCHANGED << checkedOut, res, trav >>
  /\ UNCHANGED << store, req, userTier, searchZip, totalCount >>
  /\ UNCHANGED << poolMax, billing, handlers, disconnectedAt >>

\* The count query resolves and the page query is sent.
FindCount ==
  /\ pc = "fp_count"
  /\ totalCount' = CountQuery(searchGeom, req.body)
  /\ pc' = "fp_page"
  /\ issued' = issued \cup {"findProviders.pageQuery"}
  /\ UNCHANGED << store, checkedOut, req, userTier, searchZip, searchGeom, res, trav >>
  /\ UNCHANGED << poolMax, billing, handlers, disconnectedAt >>

\* The client's walk, one more page taken from the origin zip.
Walk(t, zip, rows) ==
  IF ~t.active THEN t
  ELSE [ active |-> TRUE,
         origin |-> IF t.origin = NULL THEN zip ELSE t.origin,
         rows |-> t.rows \o rows,
         fixed |-> t.fixed /\ (t.origin = NULL \/ t.origin = zip) ]

\* The page query resolves: nextCursor is computed, the rows are formatted,
\* the client is released and the handler answers.
FindPage ==
  /\ pc = "fp_page"
  /\ \E rows \in FinalQuery(searchGeom, req.body) :
       /\ res' = [ status |-> 200, error |-> <<>>, data |-> FormatRows(rows),
                   totalCount |-> totalCount,
                   nextCursor |-> NextCursor(Offset(req.body.cursor), Len(rows), totalCount) ]
       /\ trav' = Walk(trav, searchZip, rows)
  /\ checkedOut' = checkedOut - 1
  /\ pc' = "done"
  /\ UNCHANGED << store, req, locals, issued >>
  /\ UNCHANGED << poolMax, billing, handlers, disconnectedAt >>

\* A store call in flight rejects (Supabase, pool.connect or client.query): a
\* held client is released by the finally block and the handler catches.
StoreError ==
  /\ pc \in {"tier", "loc_connect", "loc_query", "fp_connect", "fp_zip", "fp_count", "fp_page"}
  /\ \E m \in StoreErrorMessages : res' = CatchRes(m)
  /\ checkedOut' = IF pc \in {"loc_query", "fp_zip", "fp_count", "fp_page"}
                   THEN checkedOut - 1 ELSE checkedOut
  /\ pc' = "done"
  /\ trav' = NoTrav
  /\ UNCHANGED << store, req, locals, issued >>
  /\ UNCHANGED << poolMax, billing, handlers, disconnectedAt >>

\* The response has been delivered and the client walks no further.
Finish ==
  /\ pc = "done"
  /\ pc' = "idle"
  /\ req' = [user |-> "u1", body |-> NoBody]
  /\ userTier' = Undefined /\ searchZip' = Undefined /\ searchGeom' = 0 /\ totalCount' = 0
  /\ issued' = {}
  /\ res' = NoRes
  /\ trav' = NoTrav
  /\ UNCHANGED << store, checkedOut >>
  /\ UNCHANGED << poolMax, billing, handlers, disconnectedAt >>

(***************************************************************************)
(* Profiles and saved locations.                                           *)
(***************************************************************************)
\* A tier check that only asks for a profile to exist.
RequireTier_AnyProfile(allowedTiers, u) == profiles[u] # NULL

\* requireTier(['premium', 'expert'])
RequireTier(allowedTiers, u) == profiles[u] # NULL /\ profiles[u] \in allowedTiers

\* syncUserHandler creates the missing profile with the default tier.
SyncUser(u) ==
  /\ profiles[u] = NULL
  /\ profiles' = [profiles EXCEPT ![u] = "basic"]
  /\ UNCHANGED << user_locations, nextLocationId, checkedOut, pc, req, locals, issued, res, trav >>
  /\ UNCHANGED << poolMax, billing, handlers, disconnectedAt >>

\* The billing collaborator sets the tier of an existing profile.
ChangeTier(u, tier) ==
  /\ profiles[u] # NULL
  /\ profiles[u] # tier
  /\ profiles' = [profiles EXCEPT ![u] = tier]
  /\ UNCHANGED << user_locations, nextLocationId, checkedOut, pc, req, locals, issued, res, trav >>
  /\ UNCHANGED << poolMax, billing, handlers, disconnectedAt >>

\* addUserLocationHandler, the path that inserts (201).
AddUserLocation(u, name, zipCode) ==
  /\ RequireTier({"premium", "expert"}, u)
  /\ ValidAddLocation(name, zipCode)
  /\ nextLocationId <= MaxLocationId
  /\ \E z \in us_zipcodes : z.zip_code = zipCode
  /\ ~\E l \in user_locations : l.user_id = u /\ l.location_name = name
  /\ user_locations' = user_locations \cup
       { [user_location_id |-> nextLocationId, user_id |-> u, location_name |-> name,
          zip_code |-> zipCode, is_primary |-> FALSE] }
  /\ nextLocationId' = nextLocationId + 1
  /\ UNCHANGED << profiles, checkedOut, pc, req, locals, issued, res, trav >>
  /\ UNCHANGED << poolMax, billing, handlers, disconnectedAt >>

\* deleteUserLocationHandler, the path that deletes (200).
DeleteUserLocation(u, locationId) ==
  /\ ~\E l \in user_locations :
        l.user_location_id = locationId /\ l.user_id = u /\ l.is_primary
  /\ \E l \in user_locations : l.user_location_id = locationId /\ l.user_id = u
  /\ user_locations' =
       { l \in user_locations : ~(l.user_location_id = locationId /\ l.user_id = u) }
  /\ UNCHANGED << profiles, nextLocationId, checkedOut, pc, req, locals, issued, res, trav >>
  /\ UNCHANGED << poolMax, billing, handlers, disconnectedAt >>

\* setPrimaryLocationHandler, the path that commits (200).
SetPrimaryLocation(u, locationId) ==
  /\ RequireTier({"premium", "expert"}, u)
  /\ \E l \in user_locations : l.user_id = u /\ l.user_location_id = locationId
  /\ user_locations' =
       { IF l.user_id = u
         THEN [l EXCEPT !.is_primary = (l.user_location_id = locationId)]
         ELSE l : l \in user_locations }
  /\ user_locations' # user_locations
  /\ UNCHANGED << profiles, nextLocationId, checkedOut, pc, req, locals, issued, res, trav >>
  /\ UNCHANGED << poolMax, billing, handlers, disconnectedAt >>

\* The store: profiles and saved locations change while requests are served.
StoreNext ==
  \/ \E u \in Users : SyncUser(u)
  \/ \E u \in Users, tier \in TierLabels : ChangeTier(u, tier)
  \/ \E u \in Users, l \in LocationInputs : AddUserLocation(u, l.name, l.zipCode)
  \/ \E u \in Users, id \in 1..MaxLocationId : DeleteUserLocation(u, id)
  \/ \E u \in Users, id \in 1..MaxLocationId : SetPrimaryLocation(u, id)

\* Requests of users of every tier, resolved against a changing store.
Next ==
  \/ \E u \in Users, body \in OriginBodies \cup MalformedBodies : PostFindProviders(u, body)
  \/ GetUserTier
  \/ LocationConnect
  \/ LocationQuery
  \/ FindConnect
  \/ FindZip
  \/ FindCount
  \/ FindPage
  \/ StoreError
  \/ Finish
  \/ StoreNext

Spec == Init /\ [][Next]_vars

\* An expert user who pages through the results of every query.
InitPages ==
  /\ profiles = [u \in Users |-> "expert"]
  /\ user_locations = {}
  /\ nextLocationId = 1
  /\ checkedOut = 0
  /\ pc = "idle"
  /\ req = [user |-> "u1", body |-> NoBody]
  /\ userTier = Undefined
  /\ searchZip = Undefined
  /\ searchGeom = 0
  /\ totalCount = 0
  /\ issued = {}
  /\ res = NoRes
  /\ trav = NoTrav
  /\ BillingInit
  /\ handlers = NoHandlers
  /\ disconnectedAt = NULL
  /\ poolMax = DefaultPoolMax

NextPages ==
  \/ \E u \in Users, body \in QueryBodies : PostFindProviders(u, body)
  \/ NextPage
  \/ GetUserTier
  \/ FindConnect
  \/ FindZip
  \/ FindCount
  \/ FindPage
  \/ StoreError
  \/ Finish

SpecPages == InitPages /\ [][NextPages]_vars

(***************************************************************************)
(* Properties of the query, the count and the cursor (SpecPages).          *)
(***************************************************************************)
\* A find-providers request has been answered with a result.
Answered == pc = "done" /\ res.status = 200

\* The provider ids of a sequence of rows or views.
Npis(rows) == [i \in 1..Len(rows) |-> rows[i].npi]

\* The providers with an address, a centroid and one prescription record that
\* pass the request's filters from the origin g.
MatchingProviders(g, q) ==
  { d.npi : d \in { nd \in npi_details :
      \E na \in npi_addresses, np \in npi_prescriptions, uz \in us_zipcodes :
        /\ na.npi = nd.npi
        /\ np.npi = nd.npi
        /\ uz.zip_code = na.postal_code
        /\ BaseWhere(nd, np, uz, g, q) } }

\* The walk of the client has reached the last page, all pages from one origin.
WalkComplete == Answered /\ res.nextCursor = None /\ trav.active /\ trav.fixed

\* C1: the pages for cursor 0 and then each nextCursor, up to the null one,
\* concatenate to the distinct matching providers in sort order: no provider
\* id twice, none missing.
C1_PagesConcatenate ==
  WalkComplete =>
    LET rows == trav.rows
        ids == Npis(rows)
    IN /\ \A i, j \in 1..Len(rows) : i < j => ids[i] # ids[j]
       /\ { ids[i] : i \in 1..Len(rows) } = MatchingProviders(searchGeom, req.body)
       /\ \A i, j \in 1..Len(rows) :
            i < j => ~OrderBefore(req.body.sortBy, rows[j], rows[i])

\* C2: nextCursor is null exactly when offset + page length >= totalCount, and
\* is offset + page length otherwise.
C2_NextCursor ==
  Answered =>
    LET n == Offset(req.body.cursor) + Len(res.data)
    IN /\ (res.nextCursor = None) <=> (n >= res.totalCount)
       /\ res.nextCursor # None => res.nextCursor = Some(n)

\* C2's case: a later page that is not the last one.
C2_Witness ==
  Answered /\ res.nextCursor # None /\ Offset(req.body.cursor) > 0 /\ Len(res.data) > 0

\* C3: totalCount is the number of distinct providers that pass the filters; a
\* provider with several qualifying prescription rows counts once.
C3_TotalCountDistinct ==
  Answered => res.totalCount = Cardinality(MatchingProviders(searchGeom, req.body))

\* C3's case: a counted provider has more than one qualifying row.
C3_Witness ==
  /\ Answered
  /\ res.totalCount > 0
  /\ Cardinality(BaseQuery(searchGeom, req.body)) > res.totalCount

\* The providers with a deactivation date.
Deactivated == { nd.npi : nd \in { d \in npi_details : d.npi_deactivation_date # NULL } }

\* C4: a provider with a non-null deactivation date is in no page and is not
\* counted in totalCount.
C4_NoDeactivated ==
  Answered =>
    /\ \A i \in 1..Len(res.data) : res.data[i].id \notin Deactivated
    /\ res.totalCount = Cardinality(MatchingProviders(searchGeom, req.body) \ Deactivated)

\* C10: the page a query returns is determined by its inputs and the data,
\* also when rows tie on the whole sort key.
C10_Deterministic ==
  pc = "fp_page" => Cardinality(FinalQuery(searchGeom, req.body)) = 1

(***************************************************************************)
(* Properties of validation and origin resolution (Spec).                  *)
(***************************************************************************)
LookupCalls == {"getUserLocation.connect", "getUserLocation.query"}
ProviderCalls == {"findProviders.connect", "findProviders.zipQuery",
                  "findProviders.countQuery", "findProviders.pageQuery"}

\* The saved locations of the requesting user, as the table stands.
Mine == { l \in user_locations : l.user_id = req.user }

\* The provider query runs from the centroid of the resolved zip.
SearchesFromZip == pc \in {"fp_count", "fp_page"} => searchGeom \in ZipGeoms(searchZip)

\* C5: a basic user's search runs from the zip of a saved location of that user
\* flagged primary; with no primary location the request fails with a 4xx
\* location error and no provider query is issued.
C5_BasicPrimary ==
  /\ [](userTier = "basic" => SearchesFromZip)
  /\ [][ /\ (GetUserTier /\ userTier' = "basic") => pc' = "loc_connect"
         /\ (LocationQuery /\ userTier = "basic") =>
              IF \E l \in Mine : l.is_primary
              THEN /\ pc' = "fp_connect"
                   /\ \E l \in Mine : l.is_primary /\ searchZip' = l.zip_code
              ELSE /\ pc' = "done"
                   /\ res'.status \in 400..499
                   /\ res'.error = Chars("Primary location not found")
                   /\ issued' \cap ProviderCalls = {} ]_vars

\* C5's case: a basic user's lookup found the primary location, whose zip is
\* not the one the request carries.
C5_Witness ==
  /\ pc = "fp_page"
  /\ userTier = "basic"
  /\ \E l \in Mine : l.is_primary /\ l.zip_code = searchZip
  /\ Truthy(req.body.zipCode) /\ req.body.zipCode # searchZip

\* C6: a premium user's request without locationName fails with the
\* label-required error; with a label no saved location of the user carries it
\* fails with the location-not-found error; otherwise the search runs from the
\* zip of the user's saved location with that label.
C6_PremiumLabel ==
  /\ [](userTier = "premium" => SearchesFromZip)
  /\ [][ /\ (GetUserTier /\ userTier' = "premium") =>
              IF req.body.locationName \in {NULL, ""}
              THEN /\ pc' = "done"
                   /\ res'.status = 400
                   /\ res'.error = Chars("locationName required for premium")
                   /\ issued' \cap (LookupCalls \cup ProviderCalls) = {}
              ELSE pc' = "loc_connect"
         /\ (LocationQuery /\ userTier = "premium") =>
              LET labelled == { l \in Mine : l.location_name = req.body.locationName }
              IN IF labelled = {}
                 THEN /\ pc' = "done"
                      /\ res'.status = 404
                      /\ res'.error = Chars("Location '") \o Chars(req.body.locationName)
                                        \o Chars("' not found")
                      /\ issued' \cap ProviderCalls = {}
                 ELSE /\ pc' = "fp_connect"
                      /\ \E l \in labelled : searchZip' = l.zip_code ]_vars

\* C6's case: a premium user's lookup found the labelled location while the
\* user has another saved location with another zip.
C6_Witness ==
  /\ pc = "fp_page"
  /\ userTier = "premium"
  /\ \E l \in Mine : l.location_name = req.body.locationName /\ l.zip_code = searchZip
  /\ \E l \in Mine : l.location_name # req.body.locationName /\ l.zip_code # searchZip

\* C7: for an expert user, or a user without a known tier, the search runs from
\* exactly the request's zipCode, a request without zipCode fails with the
\* zip-required error, and no saved-location lookup is issued.
C7_ExpertZip ==
  (pc \notin {"idle", "tier"} /\ userTier \notin {Undefined, "basic", "premium"}) =>
    /\ issued \cap LookupCalls = {}
    /\ IF req.body.zipCode \in {NULL, ""}
       THEN /\ pc = "done"
            /\ res.status = 400
            /\ res.error = IF userTier = "expert"
                           THEN Chars("zipCode required for expert")
                           ELSE Chars("Zip code required")
            /\ issued \cap ProviderCalls = {}
       ELSE /\ searchZip = req.body.zipCode
            /\ pc \in {"fp_count", "fp_page"} => searchGeom \in ZipGeoms(req.body.zipCode)
            /\ pc = "done" => res.status # 400

\* C7's case: an expert user with a primary saved location searches from
\* another zip, the one in the request.
C7_Witness ==
  /\ pc = "fp_page"
  /\ userTier = "expert"
  /\ searchZip = req.body.zipCode
  /\ \E l \in Mine : l.is_primary /\ l.zip_code # searchZip

\* C8: the origin of a basic user's request does not depend on the request's
\* zipCode and locationName, and the origin of a premium user's request does
\* not depend on its zipCode.
C8_NoOriginEscalation ==
  pc = "tier" =>
    LET t == profiles[req.user]
        o == ResolvedOrigin(t, req.user, req.body, user_locations)
    IN /\ t = "basic" =>
            \A z \in {NULL, "", "19104", "19401", "99999"}, l \in {NULL, "", "Home", "Work"} :
              ResolvedOrigin(t, req.user, [req.body EXCEPT !.zipCode = z, !.locationName = l],
                             user_locations) = o
       /\ t = "premium" =>
            \A z \in {NULL, "", "19104", "19401", "99999"} :
              ResolvedOrigin(t, req.user, [req.body EXCEPT !.zipCode = z], user_locations) = o

\* C8's case: a basic user with a primary location asks with another zip.
C8_Witness ==
  /\ pc = "tier"
  /\ profiles[req.user] = "basic"
  /\ Truthy(req.body.zipCode)
  /\ \E l \in Mine : l.is_primary /\ l.zip_code # req.body.zipCode

\* The request in flight carries a malformed field.
Malformed(body) ==
  \/ body.drugName \in {NULL, ""}
  \/ body.radiusMiles < 1 \/ body.radiusMiles > 100
  \/ body.minClaims < 0
  \/ body.sortBy \notin {"distance", "claims", "name"}
  \/ (body.zipCode \notin {NULL, ""} /\ ~IsFiveDigits(body.zipCode))
  \/ (body.cursor # None /\ body.cursor[1] < 0)
  \/ body.limit < 1 \/ body.limit > 100

\* C9: a request with a malformed field is answered with a validation error
\* before the tier lookup, a saved-location lookup or a provider query is
\* issued, and without a pool connection.
C9_ValidationFirst ==
  (pc # "idle" /\ Malformed(req.body)) =>
    /\ pc = "done"
    /\ res.status = 400
    /\ res.error = Chars("Validation Error")
    /\ issued = {}
    /\ userTier = Undefined
    /\ checkedOut = 0

\* C9's case: a zip code of four digits has been rejected.
C9_Witness ==
  /\ pc = "done"
  /\ req.body.zipCode = "1910"
  /\ res.status = 400
  /\ profiles[req.user] = "expert"

(***************************************************************************)
(* Properties of the sort, the match and the radius (SpecPages).           *)
(***************************************************************************)
\* The rows of the page just answered, as the page query returned them.
LastPage == SubSeq(trav.rows, Len(trav.rows) - Len(res.data) + 1, Len(trav.rows))

\* rows is in the order the policy of sortBy states.
SortedByPolicy(sortBy, rows) ==
  \A i, j \in 1..Len(rows) :
    i < j =>
      LET a == rows[i]
          b == rows[j]
          l == CompareText(a.provider_last_name, b.provider_last_name)
          f == CompareText(a.provider_first_name, b.provider_first_name)
      IN CASE sortBy = "claims" ->
                \/ a.total_claim_count > b.total_claim_count
                \/ /\ a.total_claim_count = b.total_claim_count
                   /\ a.distance_meters <= b.distance_meters
           [] sortBy = "name" ->
                \/ l < 0
                \/ l = 0 /\ f < 0
                \/ l = 0 /\ f = 0 /\ a.distance_meters <= b.distance_meters
           [] OTHER -> a.distance_meters <= b.distance_meters

\* C11: every page the page query can return is ordered by the policy of the
\* request's sortBy (claims: claim count descending, then distance ascending;
\* name: last name, first name, then distance, all ascending; distance or no
\* sortBy: distance ascending), and so is the page that was answered; any other
\* value handed to findProviders orders by ascending distance.
C11_SortPolicy ==
  /\ pc = "fp_page" =>
       /\ \A page \in FinalQuery(searchGeom, req.body) :
            SortedByPolicy(req.body.sortBy, page)
       /\ \A page \in FinalQuery(searchGeom, [req.body EXCEPT !.sortBy = "rating"]) :
            SortedByPolicy("distance", page)
  /\ (Answered /\ trav.active) => SortedByPolicy(req.body.sortBy, LastPage)

\* C11's case: a page sorted by claims whose two rows have the same claim count
\* and come in the order of their distances.
C11_Witness ==
  /\ Answered /\ trav.active
  /\ req.body.sortBy = "claims"
  /\ Len(res.data) = 2
  /\ LastPage[1].total_claim_count = LastPage[2].total_claim_count
  /\ LastPage[1].distance_meters < LastPage[2].distance_meters

\* Text t holds text sub as a substring, without regard to case.
ContainsText(t, sub) ==
  t # NULL /\ Includes(LowerSeq(Chars(t)), LowerSeq(Chars(sub)))

\* The providers with a prescription record whose drug name or generic name
\* holds the requested name as a substring, the other filters as the query
\* applies them.
SubstringProviders(g, q) ==
  { j.nd.npi :
      j \in { k \in [nd : npi_details, na : npi_addresses, np : npi_prescriptions,
                     uz : us_zipcodes] :
                /\ k.nd.npi = k.na.npi
                /\ k.nd.npi = k.np.npi
                /\ k.na.postal_code = k.uz.zip_code
                /\ ST_DWithin(k.uz.geom, g, RadiusMeters(q.radiusMiles))
                /\ (ContainsText(k.np.drug_name, q.drugName)
                      \/ ContainsText(k.np.generic_name, q.drugName))
                /\ k.np.total_claim_count >= q.minClaims
                /\ (Truthy(q.taxonomyClass) =>
                      ContainsText(k.nd.healthcare_provider_taxonomy_1_classification,
                                   q.taxonomyClass)) } }

\* C12: a prescription record matches when its drug name or its generic name
\* holds the requested drugName as a case-insensitive substring: every provider
\* with such a record is counted, and the providers returned are among them.
C12_SubstringMatch ==
  Answered =>
    /\ res.totalCount = Cardinality(SubstringProviders(searchGeom, req.body))
    /\ \A i \in 1..Len(res.data) :
         res.data[i].npi \in SubstringProviders(searchGeom, req.body)

\* The distance of two centroids on one meridian, in thousandths of a metre
\* (111 195 metres to the degree of latitude).
GroundDistance(g1, g2) == Abs(g1 - g2) * 111195

\* C13: the radius filter keeps a candidate exactly when its distance from the
\* origin is at most radiusMiles * 1609.34 metres: no provider view returned lies
\* farther away (10.1 miles at radiusMiles = 10), and every matching provider
\* inside the radius (9.9 miles) is counted.
C13_RadiusInMeters ==
  Answered =>
    /\ \A i \in 1..Len(res.data) :
         GroundDistance(res.data[i].latitude, searchGeom) <= RadiusMeters(req.body.radiusMiles)
    /\ res.totalCount =
         Cardinality({ n \in MatchingProviders(searchGeom, req.body) :
                         \E na \in npi_addresses, uz \in us_zipcodes :
                           /\ na.npi = n /\ uz.zip_code = na.postal_code
                           /\ GroundDistance(uz.geom, searchGeom)
                                <= RadiusMeters(req.body.radiusMiles) })

(***************************************************************************)
(* Properties of the error paths and of the provider views.                *)
(***************************************************************************)
\* C17: when the zip query finds no centroid for the resolved search zip, the
\* request ends with a 4xx answer and neither the count query nor the page
\* query has been sent.
C17_UnknownZipIsClientError ==
  [][ (FindZip /\ ZipGeoms(searchZip) = {}) =>
        /\ pc' = "done"
        /\ res'.status \in 400..499
        /\ issued' \cap {"findProviders.countQuery", "findProviders.pageQuery"} = {}
    ]_vars

\* C17's case: a request whose resolved zip has no centroid has been answered.
C17_Witness ==
  /\ pc = "done"
  /\ "findProviders.zipQuery" \in issued
  /\ searchZip = "99999"
  /\ ZipGeoms(searchZip) = {}
  /\ res.status = 404
  /\ res.error = Chars("Coordinates not found for zip code ") \o Chars("99999")

\* C18: a store error met while find-providers is served is answered with
\* status 500 and a body that holds the text of no store error message.
C18_NoStoreErrorLeak ==
  [][ StoreError =>
        /\ res'.status = 500
        /\ \A m \in StoreErrorMessages : ~Includes(res'.error, m)
    ]_vars

\* The text-valued fields of a provider view; the other fields are numbers or
\* texts composed with || ''.
TextFields == {"first_name", "last_name", "city", "state", "availability"}

\* C19: no field of a provider view that find-providers returns is null.
C19_NoNullField ==
  Answered =>
    \A i \in 1..Len(res.data) : \A f \in TextFields : res.data[i][f] # NULL

(***************************************************************************)
(* Metered search (billing integration): the subscription tables, the      *)
(* webhook handlers that write them, createUsageRecord and                 *)
(* getPrescriberDataWithSubscriptionCheck.                                 *)
(***************************************************************************)
subscription_plans ==
  { [stripe_product_id |-> "prod_flat", tier |-> "basic", usage_based |-> FALSE],
    [stripe_product_id |-> "prod_metered", tier |-> "professional", usage_based |-> TRUE] }

prescribers ==
  { [id |-> 1, state |-> "PA", specialty |-> "Psychiatry", prescription_count |-> 20],
    [id |-> 2, state |-> "PA", specialty |-> "Family Medicine", prescription_count |-> 8],
    [id |-> 3, state |-> "NJ", specialty |-> "Psychiatry", prescription_count |-> 30] }

\* The filter objects of the searches.
PrescriberFilters ==
  { [state |-> NULL, specialty |-> NULL, minPrescriptions |-> 0],
    [state |-> "PA", specialty |-> NULL, minPrescriptions |-> 10] }

\* Most usage-increment calls the billing collaborator receives.
MaxUsage == 2

\* if (filters.state) ...eq; if (filters.specialty) ...eq; if (filters.minPrescriptions) ...gte
FilteredPrescribers(filters) ==
  { r \in prescribers :
      /\ (Truthy(filters.state) => r.state = filters.state)
      /\ (Truthy(filters.specialty) => r.specialty = filters.specialty)
      /\ (filters.minPrescriptions # 0 => r.prescription_count >= filters.minPrescriptions) }

\* query.limit(100) for basic, query.limit(1000) for professional, none otherwise:
\* the results a limited query may return.
TierLimited(rows, tier) ==
  LET n == IF tier = "basic" THEN 100 ELSE IF tier = "professional" THEN 1000
           ELSE Cardinality(rows)
  IN { d \in SUBSET rows : Cardinality(d) = Min(n, Cardinality(rows)) }

\* handleCheckoutComplete: INSERT ... ON CONFLICT (user_id) DO UPDATE, committed.
HandleCheckoutComplete(u, plan_id) ==
  /\ user_subscriptions[u] # [subscription_status |-> "active", plan_id |-> plan_id,
                              stripe_subscription_id |-> "sub_1"]
  /\ user_subscriptions' =
       [user_subscriptions EXCEPT ![u] =
          [subscription_status |-> "active", plan_id |-> plan_id,
           stripe_subscription_id |-> "sub_1"]]
  /\ UNCHANGED << profiles, user_locations, nextLocationId, checkedOut, search,
                  api_usage_logs, stripeUsage, prescriberReq, handlers, poolMax >>

\* handleSubscriptionCancelled: UPDATE user_subscriptions SET subscription_status.
HandleSubscriptionCancelled(u) ==
  /\ user_subscriptions[u].subscription_status = "active"
  /\ user_subscriptions' =
       [user_subscriptions EXCEPT ![u].subscription_status = "canceled"]
  /\ UNCHANGED << profiles, user_locations, nextLocationId, checkedOut, search,
                  api_usage_logs, stripeUsage, prescriberReq, handlers, poolMax >>

\* Everything a step of the metered search leaves alone besides the tables it names.
PrescriberFrame ==
  UNCHANGED << profiles, user_locations, nextLocationId, checkedOut, search, handlers, poolMax >>

\* getPrescriberDataWithSubscriptionCheck(userId, filters) is called.
GetPrescriberData(u, filters) ==
  /\ prescriberReq.pc = "idle"
  /\ stripeUsage < MaxUsage
  /\ prescriberReq' = [NoPrescriberReq EXCEPT !.pc = "connect", !.user = u, !.filters = filters]
  /\ UNCHANGED << user_subscriptions, api_usage_logs, stripeUsage >>
  /\ PrescriberFrame

\* pgPool.connect resolves; query 1 (the active subscription) is sent.
PrescriberConnect ==
  /\ prescriberReq.pc = "connect"
  /\ prescriberReq' = [prescriberReq EXCEPT !.pc = "subscription"]
  /\ UNCHANGED << user_subscriptions, api_usage_logs, stripeUsage >>
  /\ PrescriberFrame

\* 1. no active subscription throws; otherwise query 2 (the plan) is sent.
SubscriptionCheck ==
  /\ prescriberReq.pc = "subscription"
  /\ prescriberReq' =
       IF user_subscriptions[prescriberReq.user].subscription_status = "active"
       THEN [prescriberReq EXCEPT !.pc = "plan"]
       ELSE [prescriberReq EXCEPT !.pc = "catch", !.failedAt = "subscription"]
  /\ UNCHANGED << user_subscriptions, api_usage_logs, stripeUsage >>
  /\ PrescriberFrame

\* 2. the plan of the user's subscription row; no plan throws.
PlanQuery ==
  /\ prescriberReq.pc = "plan"
  /\ LET planResult == { sp \in subscription_plans :
                           sp.stripe_product_id = user_subscriptions[prescriberReq.user].plan_id }
     IN IF planResult = {}
        THEN prescriberReq' = [prescriberReq EXCEPT !.pc = "catch", !.failedAt = "plan"]
        ELSE \E plan \in planResult :
               prescriberReq' = [prescriberReq EXCEPT !.pc = "query", !.plan = plan]
  /\ UNCHANGED << user_subscriptions, api_usage_logs, stripeUsage >>
  /\ PrescriberFrame

\* 3. the filtered, tier-limited query resolves with the data.
PrescriberQuery ==
  /\ prescriberReq.pc = "query"
  /\ \E data \in TierLimited(FilteredPrescribers(prescriberReq.filters),
                             prescriberReq.plan.tier) :
       prescriberReq' =
         [prescriberReq EXCEPT !.data = data,
            !.pc = IF prescriberReq.plan.usage_based THEN "usage_subscription" ELSE "return"]
  /\ UNCHANGED << user_subscriptions, api_usage_logs, stripeUsage >>
  /\ PrescriberFrame

\* 4. if (plan.usage_based): the subscription id is read.
UsageSubscriptionQuery ==
  /\ prescriberReq.pc = "usage_subscription"
  /\ prescriberReq' =
       [prescriberReq EXCEPT
          !.pc = IF user_subscriptions[prescriberReq.user].subscription_status # NULL
                 THEN "stripe_retrieve" ELSE "return"]
  /\ UNCHANGED << user_subscriptions, api_usage_logs, stripeUsage >>
  /\ PrescriberFrame

\* stripe.subscriptions.retrieve resolves.
StripeRetrieve ==
  /\ prescriberReq.pc = "stripe_retrieve"
  /\ prescriberReq' = [prescriberReq EXCEPT !.pc = "usage_record"]
  /\ UNCHANGED << user_subscriptions, api_usage_logs, stripeUsage >>
  /\ PrescriberFrame

\* createUsageRecord(subscriptionItemId, 1) resolves: one increment at Stripe.
CreateUsageRecord ==
  /\ prescriberReq.pc = "usage_record"
  /\ stripeUsage' = stripeUsage + 1
  /\ prescriberReq' = [prescriberReq EXCEPT !.pc = "usage_log", !.calls = @ + 1]
  /\ UNCHANGED << user_subscriptions, api_usage_logs >>
  /\ PrescriberFrame

\* INSERT INTO api_usage_logs resolves.
InsertUsageLog ==
  /\ prescriberReq.pc = "usage_log"
  /\ api_usage_logs' =
       Append(api_usage_logs,
              [user_id |-> prescriberReq.user, endpoint |-> "prescribers",
               query_params |-> prescriberReq.filters,
               results_count |-> Cardinality(prescriberReq.data),
               subscription_id |-> user_subscriptions[prescriberReq.user].stripe_subscription_id])
  /\ prescriberReq' = [prescriberReq EXCEPT !.pc = "return", !.rows = @ + 1]
  /\ UNCHANGED << user_subscriptions, stripeUsage >>
  /\ PrescriberFrame

\* A call in flight rejects.  createUsageRecord's own catch logs and rethrows
\* (the call has been made; Stripe may or may not have counted it); no step of
\* the function catches, so control leaves its try block.
PrescriberFails ==
  /\ prescriberReq.pc \in {"connect", "subscription", "plan", "query", "usage_subscription",
                           "stripe_retrieve", "usage_record", "usage_log"}
  /\ IF prescriberReq.pc = "usage_record"
     THEN /\ stripeUsage' \in {stripeUsage, stripeUsage + 1}
          /\ prescriberReq' = [prescriberReq EXCEPT !.pc = "catch",
                                 !.failedAt = prescriberReq.pc, !.calls = @ + 1]
     ELSE /\ stripeUsage' = stripeUsage
          /\ prescriberReq' = [prescriberReq EXCEPT !.pc = "catch",
                                 !.failedAt = prescriberReq.pc]
  /\ UNCHANGED << user_subscriptions, api_usage_logs >>
  /\ PrescriberFrame

\* The function returns the data to its caller.
PrescriberReturn ==
  /\ prescriberReq.pc = "return"
  /\ prescriberReq' = [prescriberReq EXCEPT !.pc = "done", !.out = "data"]
  /\ UNCHANGED << user_subscriptions, api_usage_logs, stripeUsage >>
  /\ PrescriberFrame

\* Control has left the try block with an error: whatever the handler of the
\* enclosing try does, data (a const of the try block) is out of its reach: the
\* caller gets the error or no data.
PrescriberCatch ==
  /\ prescriberReq.pc = "catch"
  /\ \E out \in {"thrown", "undefined"} :
       prescriberReq' = [prescriberReq EXCEPT !.pc = "done", !.out = out]
  /\ UNCHANGED << user_subscriptions, api_usage_logs, stripeUsage >>
  /\ PrescriberFrame

\* The caller has the outcome.
PrescriberFinish ==
  /\ prescriberReq.pc = "done"
  /\ prescriberReq' = NoPrescriberReq
  /\ UNCHANGED << user_subscriptions, api_usage_logs, stripeUsage >>
  /\ PrescriberFrame

\* Metered and flat subscribers searching while subscriptions change.
NextMetering ==
  \/ \E u \in Users, sp \in subscription_plans : HandleCheckoutComplete(u, sp.stripe_product_id)
  \/ \E u \in Users : HandleSubscriptionCancelled(u)
  \/ \E u \in Users, filters \in PrescriberFilters : GetPrescriberData(u, filters)
  \/ PrescriberConnect
  \/ SubscriptionCheck
  \/ PlanQuery
  \/ PrescriberQuery
  \/ UsageSubscriptionQuery
  \/ StripeRetrieve
  \/ CreateUsageRecord
  \/ InsertUsageLog
  \/ PrescriberFails
  \/ PrescriberReturn
  \/ PrescriberCatch
  \/ PrescriberFinish

SpecMetering == Init /\ [][NextMetering]_vars

(***************************************************************************)
(* Properties of metering (SpecMetering).                                  *)
(***************************************************************************)
\* C14: a search that returns its data under a usage-metered plan has made
\* exactly one usage-increment call and inserted exactly one audit row; a
\* search that does not return its data has made no call and inserted no row.
C14_OneUsagePerSearch ==
  prescriberReq.pc = "done" =>
    /\ (prescriberReq.out = "data" /\ prescriberReq.plan.usage_based) =>
         (prescriberReq.calls = 1 /\ prescriberReq.rows = 1)
    /\ prescriberReq.out # "data" =>
         (prescriberReq.calls = 0 /\ prescriberReq.rows = 0)

\* C15: a search whose usage-increment call or audit insert failed returns its
\* data all the same: the failure is not rethrown.
C15_MeteringFailureSwallowed ==
  (prescriberReq.pc = "done" /\ prescriberReq.failedAt \in {"usage_record", "usage_log"}) =>
    /\ prescriberReq.out = "data"
    /\ prescriberReq.data \in TierLimited(FilteredPrescribers(prescriberReq.filters),
                                          prescriberReq.plan.tier)

(***************************************************************************)
(* Saved-location handlers, one awaited call at a time.  A request slot    *)
(* holds one request; user_locations is the committed table.  Statements   *)
(* outside a transaction commit at once.  Inside setPrimary's transaction  *)
(* (READ COMMITTED) an UPDATE locks each row it writes until the           *)
(* transaction ends, and its writes reach the table at COMMIT; a statement *)
(* that needs a row locked by another transaction waits for it.            *)
(***************************************************************************)
\* The rows another request's open transaction has written, and so locked.
LockedByOther(p, id) ==
  \E q \in Slots \ {p} : \E w \in handlers[q].writes : w.id = id

\* WHERE user_location_id = $1, without "AND user_id = $2".
RowsOf_AnyOwner(u, id) ==
  { l \in user_locations : l.user_location_id = id }

\* The committed row with this id of this user, if any.
RowsOf(u, id) == { l \in user_locations : l.user_id = u /\ l.user_location_id = id }

\* Everything a step of a saved-location handler leaves alone besides the
\* tables and the pool.
HandlerFrame == UNCHANGED << profiles, search, billing, poolMax >>

\* res.status(...).json(...) followed by the finally block: the answer is sent
\* and the client goes back to the pool.
Answer(h, status) ==
  [h EXCEPT !.pc = "done", !.status = status, !.client = FALSE, !.todo = {}, !.writes = {}]

\* POST /api/user/locations: requireTier, validate, then the handler.
PostUserLocation(p, u, name, zipCode) ==
  /\ handlers[p].pc = "idle"
  /\ nextLocationId <= MaxLocationId
  /\ LET h == [IdleHandler EXCEPT !.op = "add", !.user = u, !.name = name, !.zipCode = zipCode]
     IN handlers' = [handlers EXCEPT ![p] =
          IF ~RequireTier({"premium", "expert"}, u) THEN [h EXCEPT !.pc = "done", !.status = 403]
          ELSE IF ~ValidAddLocation(name, zipCode) THEN [h EXCEPT !.pc = "done", !.status = 400]
          ELSE [h EXCEPT !.pc = "connect"]]
  /\ UNCHANGED << user_locations, nextLocationId, checkedOut >>
  /\ HandlerFrame

\* DELETE /api/user/locations/:locationId: the handler, behind no tier check.
DeleteLocationRequest(p, u, locationId) ==
  /\ handlers[p].pc = "idle"
  /\ handlers' = [handlers EXCEPT ![p] =
       [IdleHandler EXCEPT !.op = "delete", !.user = u, !.locationId = locationId,
                           !.pc = "connect"]]
  /\ UNCHANGED << user_locations, nextLocationId, checkedOut >>
  /\ HandlerFrame

\* PUT /api/user/locations/:locationId/set-primary: requireTier, then the handler.
PutSetPrimary(p, u, locationId) ==
  /\ handlers[p].pc = "idle"
  /\ LET h == [IdleHandler EXCEPT !.op = "setPrimary", !.user = u, !.locationId = locationId,
                                  !.before = { l.user_location_id :
                                                 l \in { r \in user_locations :
                                                           r.user_id = u /\ r.is_primary } }]
     IN handlers' = [handlers EXCEPT ![p] =
          IF ~RequireTier({"premium", "expert"}, u) THEN [h EXCEPT !.pc = "done", !.status = 403]
          ELSE [h EXCEPT !.pc = "connect"]]
  /\ UNCHANGED << user_locations, nextLocationId, checkedOut >>
  /\ HandlerFrame

\* GET /api/user/locations: the handler.
GetUserLocations(p, u) ==
  /\ handlers[p].pc = "idle"
  /\ handlers' = [handlers EXCEPT ![p] =
       [IdleHandler EXCEPT !.op = "list", !.user = u, !.pc = "connect"]]
  /\ UNCHANGED << user_locations, nextLocationId, checkedOut >>
  /\ HandlerFrame

\* const client = await pool.connect() resolves; the handler's first query is sent.
HandlerConnect(p) ==
  /\ handlers[p].pc = "connect"
  /\ checkedOut < poolMax
  /\ checkedOut' = checkedOut + 1
  /\ handlers' = [handlers EXCEPT ![p].client = TRUE,
       ![p].pc = CASE handlers[p].op = "add" -> "zipCheck"
                   [] handlers[p].op = "delete" -> "select"
                   [] handlers[p].op = "setPrimary" -> "begin"
                   [] handlers[p].op = "list" -> "listQuery"]
  /\ UNCHANGED << user_locations, nextLocationId >>
  /\ HandlerFrame

\* What becomes of a request whose async handler rejects: Express 4 drops the
\* rejection and no answer is ever sent (status 0); Express 5 hands it to the
\* error middleware, which answers 500.
RejectedHandlerOutcomes == {0, 500}

\* pool.connect() rejects: the await stands before the try block and the
\* handler's promise rejects.
HandlerConnectFails(p) ==
  /\ handlers[p].pc = "connect"
  /\ \E status \in RejectedHandlerOutcomes :
       handlers' = [handlers EXCEPT ![p].pc = "done", ![p].status = status]
  /\ UNCHANGED << user_locations, nextLocationId, checkedOut >>
  /\ HandlerFrame

\* getUserLocationsHandler: the SELECT resolves and its rows are sent (the
\* ORDER BY is left out: the answer is kept as a set).
ListQuery(p) ==
  /\ handlers[p].pc = "listQuery"
  /\ handlers' = [handlers EXCEPT ![p] =
       [Answer(handlers[p], 200) EXCEPT
          !.rows = { l \in user_locations : l.user_id = handlers[p].user }]]
  /\ checkedOut' = checkedOut - 1
  /\ UNCHANGED << user_locations, nextLocationId >>
  /\ HandlerFrame

\* addUserLocationHandler: the zip check resolves.
ZipCheck(p) ==
  /\ handlers[p].pc = "zipCheck"
  /\ IF \E z \in us_zipcodes : z.zip_code = handlers[p].zipCode
     THEN /\ handlers' = [handlers EXCEPT ![p].pc = "nameCheck"]
          /\ UNCHANGED checkedOut
     ELSE /\ handlers' = [handlers EXCEPT ![p] = Answer(handlers[p], 400)]
          /\ checkedOut' = checkedOut - 1
  /\ UNCHANGED << user_locations, nextLocationId >>
  /\ HandlerFrame

\* addUserLocationHandler: the check for a row with the same name resolves.
NameCheck(p) ==
  /\ handlers[p].pc = "nameCheck"
  /\ IF \E l \in user_locations :
          l.user_id = handlers[p].user /\ l.location_name = handlers[p].name
     THEN /\ handlers' = [handlers EXCEPT ![p] = Answer(handlers[p], 409)]
          /\ checkedOut' = checkedOut - 1
     ELSE /\ handlers' = [handlers EXCEPT ![p].pc = "insert"]
          /\ UNCHANGED checkedOut
  /\ UNCHANGED << user_locations, nextLocationId >>
  /\ HandlerFrame

\* addUserLocationHandler: the INSERT resolves (201).
InsertLocation(p) ==
  /\ handlers[p].pc = "insert"
  /\ user_locations' = user_locations \cup
       { [user_location_id |-> nextLocationId, user_id |-> handlers[p].user,
          location_name |-> handlers[p].name, zip_code |-> handlers[p].zipCode,
          is_primary |-> FALSE] }
  /\ nextLocationId' = nextLocationId + 1
  /\ handlers' = [handlers EXCEPT ![p] = Answer(handlers[p], 201)]
  /\ checkedOut' = checkedOut - 1
  /\ HandlerFrame

\* deleteUserLocationHandler: SELECT is_primary resolves.
SelectIsPrimary(p) ==
  /\ handlers[p].pc = "select"
  /\ IF \E l \in RowsOf(handlers[p].user, handlers[p].locationId) : l.is_primary
     THEN /\ handlers' = [handlers EXCEPT ![p] = Answer(handlers[p], 400)]
          /\ checkedOut' = checkedOut - 1
     ELSE /\ handlers' = [handlers EXCEPT ![p].pc = "delete"]
          /\ UNCHANGED checkedOut
  /\ UNCHANGED << user_locations, nextLocationId >>
  /\ HandlerFrame

\* deleteUserLocationHandler: the DELETE resolves, once no open transaction
\* holds the row.
DeleteRow(p) ==
  /\ handlers[p].pc = "delete"
  /\ ~LockedByOther(p, handlers[p].locationId)
  /\ LET rows == RowsOf(handlers[p].user, handlers[p].locationId)
     IN /\ user_locations' = user_locations \ rows
        /\ handlers' = [handlers EXCEPT ![p] =
             Answer(handlers[p], IF rows = {} THEN 404 ELSE 200)]
  /\ checkedOut' = checkedOut - 1
  /\ UNCHANGED nextLocationId
  /\ HandlerFrame

\* setPrimaryLocationHandler: BEGIN resolves and the first UPDATE starts on the
\* rows of the user other than the target that are committed now.
Begin(p) ==
  /\ handlers[p].pc = "begin"
  /\ LET todo == { l.user_location_id :
                     l \in { r \in user_locations :
                               /\ r.user_id = handlers[p].user
                               /\ r.user_location_id # handlers[p].locationId } }
     IN handlers' = [handlers EXCEPT ![p].todo = todo,
                       ![p].pc = IF todo = {} THEN "update2" ELSE "update1"]
  /\ UNCHANGED << user_locations, nextLocationId, checkedOut >>
  /\ HandlerFrame

\* The first UPDATE outside the transaction: each row it reaches is written to
\* the table at once.
Update1Row_Autocommit(p, id) ==
  /\ handlers[p].pc = "update1"
  /\ id \in handlers[p].todo
  /\ ~LockedByOther(p, id)
  /\ LET todo == handlers[p].todo \ {id}
     IN handlers' = [handlers EXCEPT ![p].todo = todo,
                       ![p].pc = IF todo = {} THEN "update2" ELSE "update1"]
  /\ user_locations' =
       { IF l.user_id = handlers[p].user /\ l.user_location_id = id
         THEN [l EXCEPT !.is_primary = FALSE] ELSE l : l \in user_locations }
  /\ UNCHANGED << nextLocationId, checkedOut >>
  /\ HandlerFrame

\* The first UPDATE writes is_primary = false to one more of its rows (a row
\* deleted in the meantime is passed over); after the last row the second
\* UPDATE is sent.
Update1Row(p, id) ==
  /\ handlers[p].pc = "update1"
  /\ id \in handlers[p].todo
  /\ ~LockedByOther(p, id)
  /\ LET todo == handlers[p].todo \ {id}
         writes == IF RowsOf(handlers[p].user, id) = {} THEN handlers[p].writes
                   ELSE handlers[p].writes \cup { [id |-> id, is_primary |-> FALSE] }
     IN handlers' = [handlers EXCEPT ![p].todo = todo, ![p].writes = writes,
                       ![p].pc = IF todo = {} THEN "update2" ELSE "update1"]
  /\ UNCHANGED << user_locations, nextLocationId, checkedOut >>
  /\ HandlerFrame

\* The second UPDATE resolves: no target row sends ROLLBACK (404), otherwise
\* is_primary = true is written and COMMIT is sent.
Update2(p) ==
  /\ handlers[p].pc = "update2"
  /\ ~LockedByOther(p, handlers[p].locationId)
  /\ handlers' =
       IF RowsOf(handlers[p].user, handlers[p].locationId) = {}
       THEN [handlers EXCEPT ![p].pc = "rollback404"]
       ELSE [handlers EXCEPT ![p].pc = "commit",
               ![p].writes = @ \cup { [id |-> handlers[p].locationId, is_primary |-> TRUE] }]
  /\ UNCHANGED << user_locations, nextLocationId, checkedOut >>
  /\ HandlerFrame

\* The table with the writes of a transaction applied.
Committed(writes) ==
  { IF \E w \in writes : w.id = l.user_location_id
    THEN [l EXCEPT !.is_primary =
            (CHOOSE w \in writes : w.id = l.user_location_id).is_primary]
    ELSE l : l \in user_locations }

\* COMMIT resolves (200).
Commit(p) ==
  /\ handlers[p].pc = "commit"
  /\ user_locations' = Committed(handlers[p].writes)
  /\ handlers' = [handlers EXCEPT ![p] = Answer(handlers[p], 200)]
  /\ checkedOut' = checkedOut - 1
  /\ UNCHANGED nextLocationId
  /\ HandlerFrame

\* The ROLLBACK sent for a missing target resolves (404).
Rollback404(p) ==
  /\ handlers[p].pc = "rollback404"
  /\ handlers' = [handlers EXCEPT ![p] = Answer(handlers[p], 404)]
  /\ checkedOut' = checkedOut - 1
  /\ UNCHANGED << user_locations, nextLocationId >>
  /\ HandlerFrame

\* A query in flight rejects (connection lost, statement timeout, a deadlock
\* the database resolves against this request).  addUserLocationHandler and
\* deleteUserLocationHandler answer 500; setPrimaryLocationHandler's catch sends
\* ROLLBACK.  A COMMIT that rejects may have been carried out.
HandlerQueryFails(p) ==
  /\ handlers[p].pc \in {"listQuery", "zipCheck", "nameCheck", "insert", "select", "delete",
                         "begin", "update1", "update2", "commit", "rollback404"}
  /\ IF handlers[p].op = "setPrimary"
     THEN /\ \E applied \in (IF handlers[p].pc = "commit" THEN BOOLEAN ELSE {FALSE}) :
               user_locations' = IF applied THEN Committed(handlers[p].writes)
                                 ELSE user_locations
          /\ handlers' = [handlers EXCEPT ![p].pc = "rollback500", ![p].todo = {},
                            ![p].writes = IF handlers[p].pc = "commit" THEN {} ELSE @]
          /\ UNCHANGED checkedOut
     ELSE /\ handlers' = [handlers EXCEPT ![p] = Answer(handlers[p], 500)]
          /\ checkedOut' = checkedOut - 1
          /\ UNCHANGED user_locations
  /\ UNCHANGED nextLocationId
  /\ HandlerFrame

\* The catch block's ROLLBACK resolves (500).
Rollback500(p) ==
  /\ handlers[p].pc = "rollback500"
  /\ handlers' = [handlers EXCEPT ![p] = Answer(handlers[p], 500)]
  /\ checkedOut' = checkedOut - 1
  /\ UNCHANGED << user_locations, nextLocationId >>
  /\ HandlerFrame

\* client.release() after the try statement instead of in its finally block.
RollbackFails_NoFinally(p) ==
  /\ handlers[p].pc = "rollback500"
  /\ handlers' = [handlers EXCEPT ![p] = Answer(handlers[p], 0)]
  /\ UNCHANGED << user_locations, nextLocationId, checkedOut >>
  /\ HandlerFrame

\* The catch block's ROLLBACK rejects: the error leaves the catch block, the
\* finally block releases the client and the handler's promise rejects; the
\* database drops the transaction with the connection.
RollbackFails(p) ==
  /\ handlers[p].pc = "rollback500"
  /\ \E status \in RejectedHandlerOutcomes :
       handlers' = [handlers EXCEPT ![p] = Answer(handlers[p], status)]
  /\ checkedOut' = checkedOut - 1
  /\ UNCHANGED << user_locations, nextLocationId >>
  /\ HandlerFrame

\* The request is over.
HandlerFinish(p) ==
  /\ handlers[p].pc = "done"
  /\ handlers' = [handlers EXCEPT ![p] = IdleHandler]
  /\ UNCHANGED << user_locations, nextLocationId, checkedOut >>
  /\ HandlerFrame

\* The bodies of add-location requests: the users' locations and one whose zip
\* code the zip index does not hold.
AddLocationBodies == LocationInputs \cup { [name |-> "Work", zipCode |-> "99999"] }

\* A premium user with no saved location.
InitLocations ==
  /\ profiles = [u \in Users |-> "premium"]
  /\ user_locations = {}
  /\ nextLocationId = 1
  /\ checkedOut = 0
  /\ pc = "idle"
  /\ req = [user |-> "u1", body |-> NoBody]
  /\ userTier = Undefined
  /\ searchZip = Undefined
  /\ searchGeom = 0
  /\ totalCount = 0
  /\ issued = {}
  /\ res = NoRes
  /\ trav = NoTrav
  /\ BillingInit
  /\ handlers = NoHandlers
  /\ disconnectedAt = NULL
  /\ poolMax = DefaultPoolMax

\* The steps of the saved-location requests served in the slots P.
HandlerNext(P) ==
  \/ \E p \in P, u \in Users, b \in AddLocationBodies :
       PostUserLocation(p, u, b.name, b.zipCode)
  \/ \E p \in P, u \in Users, id \in 1..MaxLocationId : DeleteLocationRequest(p, u, id)
  \/ \E p \in P, u \in Users, id \in 1..MaxLocationId : PutSetPrimary(p, u, id)
  \/ \E p \in P, u \in Users : GetUserLocations(p, u)
  \/ \E p \in P : HandlerConnect(p)
  \/ \E p \in P : HandlerConnectFails(p)
  \/ \E p \in P : ListQuery(p)
  \/ \E p \in P : ZipCheck(p)
  \/ \E p \in P : NameCheck(p)
  \/ \E p \in P : InsertLocation(p)
  \/ \E p \in P : SelectIsPrimary(p)
  \/ \E p \in P : DeleteRow(p)
  \/ \E p \in P : Begin(p)
  \/ \E p \in P, id \in 1..MaxLocationId : Update1Row(p, id)
  \/ \E p \in P : Update2(p)
  \/ \E p \in P : Commit(p)
  \/ \E p \in P : Rollback404(p)
  \/ \E p \in P : HandlerQueryFails(p)
  \/ \E p \in P : Rollback500(p)
  \/ \E p \in P : RollbackFails(p)
  \/ \E p \in P : HandlerFinish(p)

\* Saved-location requests of one user, two at a time.
NextLocations == HandlerNext(Slots)

SpecLocations == InitLocations /\ [][NextLocations]_vars

\* The find-providers bodies of a premium user: a saved location by name, no
\* location name, and a body the validation rejects.
PoolBodies ==
  { SampleBody,
    [SampleBody EXCEPT !.locationName = NULL],
    [SampleBody EXCEPT !.radiusMiles = 0] }

\* Every handler that calls pool.connect: a find-providers request (through
\* getUserLocation and findProviders) next to a saved-location request.
NextPool ==
  \/ \E u \in Users, body \in PoolBodies : PostFindProviders(u, body)
  \/ GetUserTier
  \/ LocationConnect
  \/ LocationQuery
  \/ FindConnect
  \/ FindZip
  \/ FindCount
  \/ FindPage
  \/ StoreError
  \/ Finish
  \/ HandlerNext({1})

SpecPool == InitLocations /\ [][NextPool]_vars

(***************************************************************************)
(* Properties of the connection pool (SpecPool).                           *)
(***************************************************************************)
\* The saved-location requests between pool.connect and the end of the handler.
HoldingHandlers == { p \in Slots : handlers[p].pc \notin {"idle", "connect", "done"} }

\* 1 while getUserLocation or findProviders is between pool.connect and its return.
SearchHolds == IF pc \in {"loc_query", "fp_zip", "fp_count", "fp_page"} THEN 1 ELSE 0

\* C16: every client taken from the pool is released on every exit path: the
\* clients checked out are exactly those of the calls still between pool.connect
\* and their return, so a finished request holds none.
C16_ReleasedOnEveryExit ==
  checkedOut = Cardinality(HoldingHandlers) + SearchHolds

\* A set-primary request whose rollback failed and a find-providers request
\* answered after getUserLocation threw have both finished, with no client out.
C16_Witness ==
  /\ handlers[1].pc = "done" /\ handlers[1].op = "setPrimary" /\ handlers[1].status = 0
  /\ pc = "done" /\ res.status = 404 /\ "getUserLocation.query" \in issued
  /\ checkedOut = 0

(***************************************************************************)
(* Properties of concurrent saved-location requests (SpecLocations).       *)
(***************************************************************************)
\* The committed rows of a user that are flagged primary.
PrimaryRows(u) == { l \in user_locations : l.user_id = u /\ l.is_primary }

\* C20: whatever add-location, delete-location and set-primary requests have
\* run, and however their queries interleave, every user has at most one saved
\* location flagged primary.
C20_AtMostOnePrimary ==
  \A u \in Users : Cardinality(PrimaryRows(u)) <= 1

\* C21: whatever add-location requests have run, and however their queries
\* interleave, no user has two saved locations with the same label: an add
\* with an existing label answers 409 and inserts nothing.
C21_OneRowPerLabel ==
  \A l1, l2 \in user_locations :
    (l1.user_id = l2.user_id /\ l1.location_name = l2.location_name) => l1 = l2

\* C22: a delete-location request never removes a row that is flagged primary
\* when the DELETE runs, a concurrent set-primary request for the same row
\* included.
C22_PrimaryNeverDeleted ==
  [][ \A p \in Slots :
        DeleteRow(p) => \A l \in user_locations \ user_locations' : ~l.is_primary ]_vars

(***************************************************************************)
(* Properties of the find-providers request's effects (Spec).              *)
(***************************************************************************)
\* What each awaited call of a find-providers request sends to the database.
SqlOf(call) ==
  CASE call = "getUserTier" -> [verb |-> "SELECT", tables |-> {"profiles"}]
    [] call = "getUserLocation.connect" -> [verb |-> "connect", tables |-> {}]
    [] call = "getUserLocation.query" -> [verb |-> "SELECT", tables |-> {"user_locations"}]
    [] call = "findProviders.connect" -> [verb |-> "connect", tables |-> {}]
    [] call = "findProviders.zipQuery" -> [verb |-> "SELECT", tables |-> {"us_zipcodes"}]
    [] call = "findProviders.countQuery" ->
         [verb |-> "SELECT", tables |-> {"npi_prescriptions", "npi_details",
                                         "npi_addresses", "us_zipcodes"}]
    [] call = "findProviders.pageQuery" ->
         [verb |-> "SELECT", tables |-> {"npi_prescriptions", "npi_details",
                                         "npi_addresses", "us_zipcodes"}]

\* A step of the find-providers request: its position, its locals, what it
\* has sent or its answer change.
SearchStep == search' # search

\* C23: a find-providers request sends nothing but SELECTs (no BEGIN, no
\* write) and none of its steps changes the profiles, the saved locations,
\* the subscriptions or the usage log.
C23_SearchWritesNothing ==
  /\ [](\A call \in issued : SqlOf(call).verb \in {"connect", "SELECT"})
  /\ [][ SearchStep => UNCHANGED << store, billing >> ]_vars

\* A request answered with a page after getUserLocation read a saved location.
C23_Witness ==
  /\ pc = "done" /\ res.status = 200
  /\ {"getUserLocation.query", "findProviders.pageQuery"} \subseteq issued
  /\ \E l \in user_locations : l.user_id = req.user /\ l.zip_code = searchZip

(***************************************************************************)
(* Properties of the join (SpecPages).                                     *)
(***************************************************************************)
\* The row comes from one provider, one of its addresses and one of its
\* prescription records that together pass every filter of the request, the
\* radius taken on the ground.
QualifiesThroughOneRecord(row, g, q) ==
  \E nd \in npi_details, na \in npi_addresses, np \in npi_prescriptions, uz \in us_zipcodes :
    /\ nd.npi = row.npi /\ na.npi = nd.npi /\ np.npi = nd.npi
    /\ na.postal_code = row.postal_code /\ uz.zip_code = na.postal_code
    /\ np.total_claim_count = row.total_claim_count
    /\ GroundDistance(uz.geom, g) <= RadiusMeters(q.radiusMiles)
    /\ (ContainsText(np.drug_name, q.drugName) \/ ContainsText(np.generic_name, q.drugName))
    /\ np.total_claim_count >= q.minClaims
    /\ (Truthy(q.taxonomyClass) =>
          ContainsText(nd.healthcare_provider_taxonomy_1_classification, q.taxonomyClass))

\* C24: every row of a page comes from a provider of the provider set through
\* one address and one prescription record that pass the whole filter set
\* (practice zip within the radius of the origin, name match, minimum claim
\* count, taxonomy class); rows of providers missing from the provider set are
\* passed over.
C24_WholeFilterOneRecord ==
  pc = "fp_page" =>
    \A rows \in FinalQuery(searchGeom, req.body) :
      \A i \in 1..Len(rows) : QualifiesThroughOneRecord(rows[i], searchGeom, req.body)

(***************************************************************************)
(* The caller of a find-providers request goes away.                       *)
(***************************************************************************)
\* The socket closes while the handler is not aborted: no handler listens for
\* 'close' or 'aborted', so the promise chain of the handler runs on.
Disconnect_Abort ==
  /\ pc \notin {"idle", "done"}
  /\ disconnectedAt = NULL
  /\ disconnectedAt' = pc
  /\ pc' = "done"
  /\ trav' = NoTrav
  /\ UNCHANGED << store, checkedOut, req, locals, issued, res >>
  /\ UNCHANGED << poolMax, billing, handlers >>

\* The caller's socket closes while the request is in flight: the server does
\* nothing about it; the awaited calls go on and a later res.json writes to a
\* closed socket.
Disconnect ==
  /\ pc \notin {"idle", "done"}
  /\ disconnectedAt = NULL
  /\ disconnectedAt' = pc
  /\ UNCHANGED << store, checkedOut, pc, req, locals, issued, res, trav >>
  /\ UNCHANGED << poolMax, billing, handlers >>

\* A premium user with the saved location "Home".
InitAbandon ==
  /\ profiles = [u \in Users |-> "premium"]
  /\ user_locations = { [user_location_id |-> 1, user_id |-> "u1", location_name |-> "Home",
                         zip_code |-> "19104", is_primary |-> FALSE] }
  /\ nextLocationId = 2
  /\ checkedOut = 0
  /\ pc = "idle"
  /\ req = [user |-> "u1", body |-> NoBody]
  /\ userTier = Undefined
  /\ searchZip = Undefined
  /\ searchGeom = 0
  /\ totalCount = 0
  /\ issued = {}
  /\ res = NoRes
  /\ trav = NoTrav
  /\ BillingInit
  /\ handlers = NoHandlers
  /\ disconnectedAt = NULL
  /\ poolMax = DefaultPoolMax

\* The awaited calls of the request: each resolves or rejects.
SearchCalls ==
  \/ GetUserTier
  \/ LocationConnect
  \/ LocationQuery
  \/ FindConnect
  \/ FindZip
  \/ FindCount
  \/ FindPage
  \/ StoreError

NextAbandon ==
  \/ \E u \in Users, body \in PoolBodies : PostFindProviders(u, body)
  \/ SearchCalls
  \/ Disconnect
  \/ Finish

\* The awaited call of a request in flight settles and the request moves on:
\* the step is the one of SearchCalls that leaves the present position.
CallSettles ==
  /\ pc \notin {"idle", "done"}
  /\ pc' \in {"loc_connect", "loc_query", "fp_connect", "fp_zip", "fp_count", "fp_page", "done"}

\* Every awaited call settles: pool.connect within connectionTimeoutMillis, a
\* query when the database answers or the connection breaks.
SpecAbandon == InitAbandon /\ [][NextAbandon]_vars /\ WF_pc(CallSettles)

\* C25: a find-providers request whose caller went away while it held a pool
\* client gives the client back, and a request that is over holds none.
C25_ReleasedAfterDisconnect ==
  /\ [](pc \in {"idle", "done"} => checkedOut = 0)
  /\ ((disconnectedAt # NULL /\ checkedOut > 0) ~> checkedOut = 0)

\* The caller went away during a query of findProviders; the request is over
\* and the client is back in the pool.
C25_Witness ==
  /\ disconnectedAt \in {"fp_zip", "fp_count", "fp_page"}
  /\ pc = "done"
  /\ checkedOut = 0

(***************************************************************************)
(* Properties of the saved-location requests' answers (SpecLocations).     *)
(***************************************************************************)
\* C26: every saved-location request that is over has been answered, a
\* request whose pool.connect rejected and a set-primary request whose
\* ROLLBACK rejected included.
C26_EveryRequestAnswered ==
  \A p \in Slots : handlers[p].pc = "done" => handlers[p].status # 0

(***************************************************************************)
(* Requests competing for the clients of a narrow pool.                    *)
(***************************************************************************)
\* Pool widths (DB_POOL_MAX) under which two requests compete or do not.
PoolWidths == {1, 2}

\* A premium user with the saved location "Home" and a pool of width 1 or 2.
InitPoolWait ==
  /\ profiles = [u \in Users |-> "premium"]
  /\ user_locations = { [user_location_id |-> 1, user_id |-> "u1", location_name |-> "Home",
                         zip_code |-> "19104", is_primary |-> FALSE] }
  /\ nextLocationId = 2
  /\ checkedOut = 0
  /\ pc = "idle"
  /\ req = [user |-> "u1", body |-> NoBody]
  /\ userTier = Undefined
  /\ searchZip = Undefined
  /\ searchGeom = 0
  /\ totalCount = 0
  /\ issued = {}
  /\ res = NoRes
  /\ trav = NoTrav
  /\ BillingInit
  /\ handlers = NoHandlers
  /\ disconnectedAt = NULL
  /\ poolMax \in PoolWidths

\* A find-providers request (two acquisitions, one after the other) next to a
\* saved-location request.
NextPoolWait ==
  \/ \E u \in Users : PostFindProviders(u, SampleBody)
  \/ SearchCalls
  \/ Finish
  \/ HandlerNext({1})

\* The call in flight of the find-providers request, other than pool.connect,
\* settles.
QuerySettles ==
  /\ pc \in {"tier", "loc_query", "fp_zip", "fp_count", "fp_page"}
  /\ pc' \in {"loc_connect", "fp_connect", "fp_zip", "fp_count", "fp_page", "done"}

\* A step of a saved-location request that holds a client.
HoldingStep(p) ==
  \/ ListQuery(p)
  \/ ZipCheck(p)
  \/ NameCheck(p)
  \/ InsertLocation(p)
  \/ SelectIsPrimary(p)
  \/ DeleteRow(p)
  \/ Begin(p)
  \/ \E id \in 1..MaxLocationId : Update1Row(p, id)
  \/ Update2(p)
  \/ Commit(p)
  \/ Rollback404(p)
  \/ HandlerQueryFails(p)
  \/ Rollback500(p)
  \/ RollbackFails(p)

\* Every query terminates, and the pool hands a released client to the
\* requests waiting in its queue in turn.
SpecPoolWait ==
  /\ InitPoolWait /\ [][NextPoolWait]_vars
  /\ WF_pc(QuerySettles)
  /\ WF_vars(HoldingStep(1))
  /\ SF_vars(LocationConnect) /\ SF_vars(FindConnect) /\ SF_vars(HandlerConnect(1))

\* The find-providers request waits for a client of the pool.
SearchWaits == pc \in {"loc_connect", "fp_connect"}

\* C27 as stated: no request waits for a client while it holds one, and every
\* request that waits for a client, the pool having none free, obtains one.
C27_WaitingObtains ==
  /\ [](SearchWaits => checkedOut = Cardinality(HoldingHandlers))
  /\ ((pc = "loc_connect" /\ checkedOut = poolMax) ~> pc = "loc_query")
  /\ ((pc = "fp_connect" /\ checkedOut = poolMax) ~> pc = "fp_zip")
  /\ ((handlers[1].pc = "connect" /\ checkedOut = poolMax) ~> handlers[1].client)

\* C27, with the pool's connection timeout: no request waits for a client while
\* it holds one, the pool never hands out more than its width, and every
\* request that waits for a client obtains one or has its pool.connect rejected
\* (and, a find-providers request, is answered with an error).
C27_NoPoolDeadlock ==
  /\ [](checkedOut <= poolMax)
  /\ [](SearchWaits => checkedOut = Cardinality(HoldingHandlers))
  /\ (pc = "loc_connect" ~> (pc = "loc_query" \/ (pc = "done" /\ res.status >= 400)))
  /\ (pc = "fp_connect" ~> (pc = "fp_zip" \/ (pc = "done" /\ res.status >= 400)))
  /\ (handlers[1].pc = "connect" ~> (handlers[1].client \/ handlers[1].pc = "done"))

\* With a pool of width 1 the find-providers request waits for its second
\* client while the saved-location request holds the only one.
C27_Witness ==
  /\ poolMax = 1
  /\ pc = "fp_connect"
  /\ handlers[1].client
  /\ checkedOut = 1

(***************************************************************************)
(* Saved-location requests next to the rows of another user.               *)
(***************************************************************************)
\* The owner of rows that no request of Users may touch.
OtherUser == "u2"

\* Premium user u1 has no saved location; location 1 belongs to another user,
\* primary or not.
InitForeign ==
  /\ profiles = [u \in Users |-> "premium"]
  /\ \E primary \in BOOLEAN :
       user_locations = { [user_location_id |-> 1, user_id |-> OtherUser,
                           location_name |-> "Home", zip_code |-> "19104",
                           is_primary |-> primary] }
  /\ nextLocationId = 2
  /\ checkedOut = 0
  /\ pc = "idle"
  /\ req = [user |-> "u1", body |-> NoBody]
  /\ userTier = Undefined
  /\ searchZip = Undefined
  /\ searchGeom = 0
  /\ totalCount = 0
  /\ issued = {}
  /\ res = NoRes
  /\ trav = NoTrav
  /\ BillingInit
  /\ handlers = NoHandlers
  /\ disconnectedAt = NULL
  /\ poolMax = DefaultPoolMax

\* One saved-location request at a time, with any location id.
SpecForeign == InitForeign /\ [][HandlerNext({1})]_vars

\* The ids of the rows of a user that are flagged primary.
PrimaryIds(u) == { l.user_location_id : l \in PrimaryRows(u) }

\* C28: a set-primary request whose target row does not exist or belongs to
\* another user sends ROLLBACK and answers 404, and when the request is over
\* the user's primary flags are those from before the request.
C28_NotFoundLeavesFlags ==
  /\ [][ \A p \in {1} :
           (Update2(p) /\ RowsOf(handlers[p].user, handlers[p].locationId) = {}) =>
             /\ handlers'[p].pc = "rollback404"
             /\ user_locations' = user_locations ]_vars
  /\ [][ \A p \in {1} : Rollback404(p) => handlers'[p].status = 404 ]_vars
  /\ [](\A p \in {1} :
          ( /\ handlers[p].op = "setPrimary"
            /\ handlers[p].pc = "done"
            /\ RowsOf(handlers[p].user, handlers[p].locationId) = {} ) =>
            PrimaryIds(handlers[p].user) = handlers[p].before)

\* User u1, whose location 2 is primary, asked for location 1 (another user's)
\* to be made primary and was answered 404.
C28_Witness ==
  /\ handlers[1].op = "setPrimary" /\ handlers[1].locationId = 1
  /\ handlers[1].status = 404
  /\ handlers[1].before = {2}

\* The rows of the other user.
RowsOfOther == { l \in user_locations : l.user_id = OtherUser }

\* C29: no add-location, delete-location or set-primary request of a user,
\* whatever location id it names, inserts, deletes or changes a row of another
\* user, and list-locations answers with rows of the requesting user only.
C29_ConfinedToUser ==
  /\ [][ RowsOfOther' = RowsOfOther ]_vars
  /\ [](\A p \in {1} : \A l \in handlers[p].rows : l.user_id = handlers[p].user)

\* Requests of u1 naming the other user's location 1 have been answered: a
\* delete and, after it, a list that returned u1's own row.
C29_Witness ==
  /\ handlers[1].op = "list" /\ handlers[1].status = 200
  /\ handlers[1].rows # {}
  /\ RowsOfOther # {}

(***************************************************************************)
(* Users of every tier, each keeping its tier: saved-location requests     *)
(* next to find-providers requests.                                        *)
(***************************************************************************)
\* The user starts with no saved location and with no profile, tier basic or
\* tier premium.
InitTiers ==
  /\ profiles \in [Users -> {NULL, "basic", "premium"}]
  /\ user_locations = {}
  /\ nextLocationId = 1
  /\ checkedOut = 0
  /\ pc = "idle"
  /\ req = [user |-> "u1", body |-> NoBody]
  /\ userTier = Undefined
  /\ searchZip = Undefined
  /\ searchGeom = 0
  /\ totalCount = 0
  /\ issued = {}
  /\ res = NoRes
  /\ trav = NoTrav
  /\ BillingInit
  /\ handlers = NoHandlers
  /\ disconnectedAt = NULL
  /\ poolMax = DefaultPoolMax

\* Every request of the API that reads or writes saved locations; the only
\* change of tier is the creation of a missing profile with tier basic.
NextTiers ==
  \/ \E u \in Users : SyncUser(u)
  \/ \E u \in Users : PostFindProviders(u, SampleBody)
  \/ SearchCalls
  \/ Finish
  \/ HandlerNext({1})

SpecTiers == InitTiers /\ [][NextTiers]_vars

\* The tier is basic or absent.
BelowPremium(u) == profiles[u] \notin {"premium", "expert"}

====
